---- MODULE Spec2Model ----
(***************************************************************************)
(* Model of the configuration manager of the API proxy control plane       *)
(* (src/go/configmanager/config_manager.go): NewConfigManager fetches the  *)
(* service configuration, builds the listener, cluster and HTTP filter     *)
(* chain, and publishes one snapshot to the discovery cache.               *)
(*                                                                         *)
(* Strings of the program are TLA+ strings; the string functions of the Go *)
(* library the code calls (HasSuffix, Replace, Sprintf) are computed on    *)
(* them character by character.                                            *)
(***************************************************************************)
EXTENDS Integers, Sequences, FiniteSets, TLC

(***************************************************************************)
(* Go library string functions used by the code.                           *)
(***************************************************************************)

\* strings.HasSuffix(s, suffix)
HasSuffix(s, suffix) ==
  /\ Len(s) >= Len(suffix)
  /\ SubSeq(s, Len(s) - Len(suffix) + 1, Len(s)) = suffix

\* strings.Index(s, sub), 1-based; 0 when sub does not occur in s
StrIndex(s, sub) ==
  LET hits == {i \in 1..(Len(s) - Len(sub) + 1) : SubSeq(s, i, i + Len(sub) - 1) = sub}
  IN  IF hits = {} THEN 0 ELSE CHOOSE i \in hits : \A j \in hits : i <= j

\* strings.Replace(s, old, new, 1): only the first occurrence is replaced
Replace1(s, old, new) ==
  LET i == StrIndex(s, old)
  IN  IF i = 0 THEN s
      ELSE SubSeq(s, 1, i - 1) \o new \o SubSeq(s, i + Len(old), Len(s))

(***************************************************************************)
(* Program constants and flag defaults.                                    *)
(***************************************************************************)
statPrefix == "ingress_http"
routeName == "local_route"
virtualHostName == "backend"
fetchConfigSufix == "/v1/services/$serviceName/configs/$configId?view=FULL"
tokenUri == "http://169.254.169.254/computeMetadata/v1/instance/service-accounts/default/token"
serviceControlUri == "https://servicecontrol.googleapis.com/v1/services/"

listenerAddress == "0.0.0.0"
clusterAddress == "127.0.0.1"
serviceManagementURL == "https://servicemanagement.googleapis.com"
node == "api_proxy"
listenerPort == 8080
clusterPort == 8082
clusterConnectTimeout == 20

\* fetchConfigURL(serviceName, configID)
fetchConfigURL(name, id) ==
  LET path0 == serviceManagementURL \o fetchConfigSufix
      path1 == Replace1(path0, "$serviceName", name)
  IN  Replace1(path1, "$configId", id)

(***************************************************************************)
(* Generic helpers.  A Go pointer that may be nil is a sequence of length  *)
(* at most one; a Go map is a function whose domain is its key set.        *)
(***************************************************************************)
Nil == <<>>
Ptr(v) == <<v>>

SeqsUpTo(S, n) == UNION {[1..k -> S] : k \in 0..n}

Range(s) == {s[i] : i \in DOMAIN s}

\* map[k] = v
MapPut(f, k, v) == [x \in (DOMAIN f) \cup {k} |-> IF x = k THEN v ELSE f[x]]

\* every order in which "for k := range map" can visit the key set S
IterationOrders(S) ==
  {o \in [1..Cardinality(S) -> S] : \A i, j \in DOMAIN o : o[i] = o[j] => i = j}

(***************************************************************************)
(* makeServiceControlFilter                                                *)
(***************************************************************************)
ServiceControl == "envoy.filters.http.service_control"

\* the selector built from the method name alone
Selector_MethodOnly(apiName, methodName) == methodName

\* fmt.Sprintf("%s.%s", api.GetName(), method.GetName())
Selector(apiName, methodName) == apiName \o "." \o methodName

\* the path built with the selector's dot
GrpcUri_Dotted(apiName, methodName) == "/" \o apiName \o "." \o methodName

\* fmt.Sprintf("/%s/%s", api.GetName(), method.GetName())
GrpcUri(apiName, methodName) == "/" \o apiName \o "/" \o methodName

\* the rule seeded for one method
SeedRule(svcName, apiName, methodName) ==
  [ serviceName   |-> svcName,
    operationName |-> Selector(apiName, methodName),
    pattern       |-> [uriTemplate |-> GrpcUri(apiName, methodName), httpMethod |-> "POST"],
    apiKey        |-> Nil ]

RECURSIVE SeedMethods(_, _, _, _)
SeedMethods(rulesMap, svcName, api, j) ==
  IF j > Len(api.methods) THEN rulesMap
  ELSE SeedMethods(MapPut(rulesMap, Selector(api.name, api.methods[j]),
                          SeedRule(svcName, api.name, api.methods[j])),
                   svcName, api, j + 1)

RECURSIVE SeedApis(_, _, _, _)
SeedApis(rulesMap, svcName, apis, i) ==
  IF i > Len(apis) THEN rulesMap
  ELSE SeedApis(SeedMethods(rulesMap, svcName, apis[i], 1), svcName, apis, i + 1)

\* the oneof cases the switch on httpRule.GetPattern() handles
HandledPatterns == {"get", "put", "post", "delete", "patch"}

\* the PATCH case writing the verb of the case above it
HttpMethodOf_CopiedCase(kind) ==
  CASE kind = "get"    -> "GET"
    [] kind = "put"    -> "PUT"
    [] kind = "post"   -> "POST"
    [] kind = "delete" -> "DELETE"
    [] kind = "patch"  -> "DELETE"

\* the HttpMethod string each handled case writes
HttpMethodOf(kind) ==
  CASE kind = "get"    -> "GET"
    [] kind = "put"    -> "PUT"
    [] kind = "post"   -> "POST"
    [] kind = "delete" -> "DELETE"
    [] kind = "patch"  -> "PATCH"

\* the loop passing over an entry whose selector has no rule
HttpRuleStep_SkipsUnknown(st, httpRule) ==
  IF st.panicked \/ httpRule.kind \notin HandledPatterns THEN st
  ELSE IF httpRule.selector \notin DOMAIN st.rulesMap
       THEN st
       ELSE [st EXCEPT !.rulesMap[httpRule.selector].pattern =
                         [uriTemplate |-> httpRule.path,
                          httpMethod  |-> HttpMethodOf(httpRule.kind)]]

\* one iteration of the loop over http.rules; st = [panicked, rulesMap]
HttpRuleStep(st, httpRule) ==
  IF st.panicked \/ httpRule.kind \notin HandledPatterns THEN st
  ELSE IF httpRule.selector \notin DOMAIN st.rulesMap
       THEN [st EXCEPT !.panicked = TRUE]
       ELSE [st EXCEPT !.rulesMap[httpRule.selector].pattern =
                         [uriTemplate |-> httpRule.path,
                          httpMethod  |-> HttpMethodOf(httpRule.kind)]]

RECURSIVE ApplyHttpRules(_, _, _)
ApplyHttpRules(st, rules, i) ==
  IF i > Len(rules) THEN st
  ELSE ApplyHttpRules(HttpRuleStep(st, rules[i]), rules, i + 1)

\* the requirement with the header looked up before the query parameter
ApiKeyRequirement_HeaderFirst(usageRule) ==
  [ allowWithoutApiKey |-> usageRule.allowUnregisteredCalls,
    apiKeys |-> << [kind |-> "header", name |-> "x-api-key"],
                   [kind |-> "query", name |-> "key"] >> ]

\* the APIKeyRequirement a usage rule attaches
ApiKeyRequirement(usageRule) ==
  [ allowWithoutApiKey |-> usageRule.allowUnregisteredCalls,
    apiKeys |-> << [kind |-> "query", name |-> "key"],
                   [kind |-> "header", name |-> "x-api-key"] >> ]

\* one iteration of the loop over usage.rules
UsageRuleStep(st, usageRule) ==
  IF st.panicked THEN st
  ELSE IF usageRule.selector \notin DOMAIN st.rulesMap
       THEN [st EXCEPT !.panicked = TRUE]
       ELSE [st EXCEPT !.rulesMap[usageRule.selector].apiKey = Ptr(ApiKeyRequirement(usageRule))]

RECURSIVE ApplyUsageRules(_, _, _)
ApplyUsageRules(st, rules, i) ==
  IF i > Len(rules) THEN st
  ELSE ApplyUsageRules(UsageRuleStep(st, rules[i]), rules, i + 1)

\* rulesMap after the three loops, or the nil dereference on the way
BuildRulesMap(serviceConfig) ==
  LET seeded == SeedApis(<<>>, serviceConfig.name, serviceConfig.apis, 1)
      http   == ApplyHttpRules([panicked |-> FALSE, rulesMap |-> seeded],
                               serviceConfig.http, 1)
  IN  ApplyUsageRules(http, serviceConfig.usage, 1)

\* the range loop losing the rule it visits first
RulesInOrder_DropsFirst(rulesMap, o) == [i \in 1..(Len(o) - 1) |-> rulesMap[o[i + 1]]]

\* the repeated field filled by "for _, rule := range rulesMap", visited in order o
RulesInOrder(rulesMap, o) == [i \in DOMAIN o |-> rulesMap[o[i]]]

ScHttpUri(uri, cluster) == [uri |-> uri, cluster |-> cluster, timeout |-> 5]

ScFilterConfig(serviceConfig, rules) ==
  [ services          |-> << [ serviceName       |-> serviceConfig.name,
                               tokenUri          |-> ScHttpUri(tokenUri, "gcp_metadata_cluster"),
                               serviceControlUri |-> ScHttpUri(serviceControlUri, "service_control_cluster") ] >>,
    serviceName       |-> serviceConfig.name,
    serviceControlUri |-> ScHttpUri(serviceControlUri, "service_control_cluster"),
    rules             |-> rules ]

\* The set of outcomes of makeServiceControlFilter: [panicked, filter], one for
\* each order in which the map iteration can deliver the rules.
makeServiceControlFilter(serviceConfig) ==
  IF serviceConfig.name = "" \/ serviceConfig.environment = ""
  THEN {[panicked |-> FALSE, filter |-> Nil]}
  ELSE LET st == BuildRulesMap(serviceConfig)
       IN  IF st.panicked THEN {[panicked |-> TRUE, filter |-> Nil]}
           ELSE {[panicked |-> FALSE,
                  filter   |-> Ptr([name   |-> ServiceControl,
                                    config |-> ScFilterConfig(serviceConfig,
                                                 RulesInOrder(st.rulesMap, o))])]
                 : o \in IterationOrders(DOMAIN st.rulesMap)}

(***************************************************************************)
(* fetchJwk and makeJwtAuthnFilter                                         *)
(***************************************************************************)
JwtAuthn == "envoy.filters.http.jwt_authn"

\* strings.Split(s, sep) for a non-empty separator
RECURSIVE Split(_, _)
Split(s, sep) ==
  LET i == StrIndex(s, sep)
  IN  IF i = 0 THEN <<s>>
      ELSE <<SubSeq(s, 1, i - 1)>> \o Split(SubSeq(s, i + Len(sep), Len(s)), sep)

\* fetchJwk without the check of the status code
fetchJwk_AnyStatus(response) ==
  IF response.status # 0
  THEN [err |-> FALSE, jwk |-> response.body]
  ELSE [err |-> TRUE, jwk |-> ""]

\* A response of a JWKS endpoint is [status, body]: status 0 stands for a failed
\* client.Do, any other status for an HTTP response.  fetchJwk returns (bytes, err).
fetchJwk(response) ==
  IF response.status = 200
  THEN [err |-> FALSE, jwk |-> response.body]
  ELSE [err |-> TRUE, jwk |-> ""]

\* the JwtProvider built from a provider and its fetched key set
JwtProvider(provider, jwk) ==
  [ issuer    |-> provider.issuer,
    localJwks |-> jwk,
    audiences |-> IF Len(provider.audiences) # 0
                  THEN Split(provider.audiences, ",") ELSE <<>> ]

\* the loop going on to the next provider after a failed fetch
ProviderStep_Continue(st, provider, response) ==
  LET r == fetchJwk(response)
  IN  IF r.err THEN st
      ELSE [st EXCEPT !.providers = MapPut(@, provider.id, JwtProvider(provider, r.jwk))]

\* One iteration of the loop over auth.GetProviders(); st = [stopped, providers].
\* stopped is the break taken when a fetch fails.
ProviderStep(st, provider, response) ==
  IF st.stopped THEN st
  ELSE LET r == fetchJwk(response)
       IN  IF r.err THEN [st EXCEPT !.stopped = TRUE]
           ELSE [st EXCEPT !.providers = MapPut(@, provider.id, JwtProvider(provider, r.jwk))]

RECURSIVE CollectProviders(_, _, _, _)
CollectProviders(st, providers, jwks, i) ==
  IF i > Len(providers) \/ st.stopped THEN st
  ELSE CollectProviders(ProviderStep(st, providers[i], jwks[providers[i].jwksUri]),
                        providers, jwks, i + 1)

\* the JwtRequirement of one AuthRequirement
Require(r) ==
  IF r.audiences = ""
  THEN [kind |-> "provider_name", providerName |-> r.providerId,
        audiences |-> <<>>, requirements |-> <<>>]
  ELSE [kind |-> "provider_and_audiences", providerName |-> r.providerId,
        audiences |-> Split(r.audiences, ","), requirements |-> <<>>]

\* a single requirement wrapped in a RequiresAny list like several are
Requires_AlwaysAny(rule) ==
  [kind |-> "requires_any", providerName |-> "", audiences |-> <<>>,
   requirements |-> [k \in DOMAIN rule.requirements |-> Require(rule.requirements[k])]]

\* the Requires of one authentication rule with at least one requirement
Requires(rule) ==
  IF Len(rule.requirements) = 1 THEN Require(rule.requirements[1])
  ELSE [kind |-> "requires_any", providerName |-> "", audiences |-> <<>>,
        requirements |-> [k \in DOMAIN rule.requirements |-> Require(rule.requirements[k])]]

\* m[len(m)-1] of m := strings.Split(selector, ".")
LastSegment(selector) == LET m == Split(selector, ".") IN m[Len(m)]

RequirementRule(rule, apiName) ==
  [ prefix   |-> "/" \o apiName \o "/" \o LastSegment(rule.selector),
    requires |-> Requires(rule) ]

\* the loop over auth.GetRules(): it ends at the first rule without requirements
RECURSIVE JwtRules(_, _, _, _)
JwtRules(acc, rules, apiName, i) ==
  IF i > Len(rules) THEN acc
  ELSE IF Len(rules[i].requirements) = 0 THEN acc
  ELSE JwtRules(Append(acc, RequirementRule(rules[i], apiName)), rules, apiName, i + 1)

\* makeJwtAuthnFilter once the provider loop has ended with the map providers
JwtFilterFrom(serviceConfig, endpointApi, providers) ==
  IF Len(serviceConfig.providers) = 0 \/ DOMAIN providers = {} THEN Nil
  ELSE Ptr([ name   |-> JwtAuthn,
             config |-> [ providers |-> providers,
                          rules     |-> JwtRules(<<>>, serviceConfig.authRules,
                                                 endpointApi.name, 1) ] ])

makeJwtAuthnFilter(serviceConfig, endpointApi, jwks) ==
  JwtFilterFrom(serviceConfig, endpointApi,
                CollectProviders([stopped |-> FALSE, providers |-> <<>>],
                                 serviceConfig.providers, jwks, 1).providers)

(***************************************************************************)
(* makeTranscoderFilter                                                    *)
(***************************************************************************)
GRPCJSONTranscoder == "envoy.grpc_json_transcoder"

\* the loop keeping the last descriptor set it meets
makeTranscoderFilterFrom_Last(sourceFiles, endpointApi, i) ==
  LET found == {k \in DOMAIN sourceFiles :
                  k >= i /\ sourceFiles[k].fileType = "FILE_DESCRIPTOR_SET_PROTO"}
  IN  IF found = {} THEN <<>>
      ELSE LET last == CHOOSE k \in found : \A x \in found : x <= k
           IN  <<[ name   |-> "envoy.grpc_json_transcoder",
                   config |-> [ protoDescriptorBin |-> sourceFiles[last].fileContents,
                                services           |-> <<endpointApi.name>> ] ]>>

RECURSIVE makeTranscoderFilterFrom(_, _, _)
makeTranscoderFilterFrom(sourceFiles, endpointApi, i) ==
  IF i > Len(sourceFiles) THEN Nil
  ELSE IF sourceFiles[i].fileType = "FILE_DESCRIPTOR_SET_PROTO"
       THEN Ptr([ name   |-> GRPCJSONTranscoder,
                  config |-> [ protoDescriptorBin |-> sourceFiles[i].fileContents,
                               services           |-> <<endpointApi.name>> ] ])
       ELSE makeTranscoderFilterFrom(sourceFiles, endpointApi, i + 1)

makeTranscoderFilter(serviceConfig, endpointApi) ==
  makeTranscoderFilterFrom(serviceConfig.sourceFiles, endpointApi, 1)

(***************************************************************************)
(* makeListener                                                            *)
(***************************************************************************)
Router == "envoy.router"
HTTPConnectionManager == "envoy.http_connection_manager"

\* the switch without its default case
BackendProtocol_NoDefault(fileName) ==
  IF HasSuffix(fileName, ".proto") THEN "GRPC" ELSE "HTTP"

\* the switch on the suffix of the first API's source file name
BackendProtocol(fileName) ==
  IF HasSuffix(fileName, ".proto") THEN "GRPC"
  ELSE IF HasSuffix(fileName, ".yaml") THEN "HTTP"
  ELSE "unknown"

\* the router filter carries an empty Struct
routerFilter == [name |-> Router, config |-> [fields |-> <<>>]]

\* the service-control filter appended before the JWT filter
HttpFilters_ScFirst(jwtAuthnFilter, serviceControlFilter, backendProtocol, transcoderFilter) ==
  serviceControlFilter \o jwtAuthnFilter
    \o (IF backendProtocol = "GRPC" THEN transcoderFilter ELSE <<>>)
    \o <<[name |-> Router, config |-> [fields |-> <<>>]]>>

\* the transcoder appended whatever the backend protocol is
HttpFilters_TranscoderAlways(jwtAuthnFilter, serviceControlFilter, backendProtocol, transcoderFilter) ==
  jwtAuthnFilter \o serviceControlFilter \o transcoderFilter
    \o <<[name |-> Router, config |-> [fields |-> <<>>]]>>

\* httpFilters as the successive appends build it
HttpFilters(jwtAuthnFilter, serviceControlFilter, backendProtocol, transcoderFilter) ==
  jwtAuthnFilter \o serviceControlFilter
    \o (IF backendProtocol = "GRPC" THEN transcoderFilter ELSE <<>>)
    \o <<routerFilter>>

HttpConnectionManager(endpointApi, httpFilters) ==
  [ codecType   |-> "AUTO",
    statPrefix  |-> statPrefix,
    routeConfig |-> [ name |-> routeName,
                      virtualHosts |-> << [ name    |-> virtualHostName,
                                            domains |-> <<"*">>,
                                            routes  |-> << [ prefix  |-> "/",
                                                             cluster |-> endpointApi.name ] >> ] >> ],
    httpFilters |-> httpFilters ]

\* makeListener after the protocol is known and the provider loop has ended:
\* the set of [panicked, httpManager] it can produce
ListenerFrom(serviceConfig, endpointApi, backendProtocol, providers) ==
  LET jwt == JwtFilterFrom(serviceConfig, endpointApi, providers)
      tc  == makeTranscoderFilter(serviceConfig, endpointApi)
  IN  { IF sc.panicked THEN [panicked |-> TRUE, httpManager |-> Nil]
        ELSE [panicked    |-> FALSE,
              httpManager |-> Ptr(HttpConnectionManager(endpointApi,
                                    HttpFilters(jwt, sc.filter, backendProtocol, tc)))]
        : sc \in makeServiceControlFilter(serviceConfig) }

(***************************************************************************)
(* makeSnapshot                                                            *)
(***************************************************************************)
Listener(httpManager) ==
  [ address      |-> listenerAddress,
    port         |-> listenerPort,
    filterChains |-> << [filters |-> << [name   |-> HTTPConnectionManager,
                                         config |-> httpManager] >>] >> ]

\* the cluster named after the virtual host
Cluster_VirtualHostName(endpointApi) ==
  [ name           |-> virtualHostName,
    lbPolicy       |-> "ROUND_ROBIN",
    connectTimeout |-> clusterConnectTimeout,
    hosts          |-> << [address |-> clusterAddress, port |-> clusterPort] >> ]

Cluster(endpointApi) ==
  [ name           |-> endpointApi.name,
    lbPolicy       |-> "ROUND_ROBIN",
    connectTimeout |-> clusterConnectTimeout,
    hosts          |-> << [address |-> clusterAddress, port |-> clusterPort] >> ]

\* the listener passed in the place of the routes
NewSnapshot_ListenerAsRoutes(version, endpoints, clusters, routes, listeners) ==
  [ version |-> version, endpoints |-> endpoints, clusters |-> clusters,
    routes  |-> listeners, listeners |-> routes ]

\* cache.NewSnapshot(version, endpoints, clusters, routes, listeners)
NewSnapshot(version, endpoints, clusters, routes, listeners) ==
  [ version |-> version, endpoints |-> endpoints, clusters |-> clusters,
    routes  |-> routes, listeners |-> listeners ]

\* the service name passed as the version
SnapshotVersion_ServiceName(m) == m.serviceName

\* the version makeSnapshot gives the snapshot
SnapshotVersion(m) == m.configID

\* the rest of makeSnapshot once makeListener has returned result r
SnapshotFrom(m, endpointApi, r) ==
  IF r.panicked THEN [outcome |-> "panic", snapshot |-> Nil]
  ELSE [outcome  |-> "ok",
        snapshot |-> Ptr(NewSnapshot(SnapshotVersion(m), <<>>, <<Cluster(endpointApi)>>, <<>>,
                                     <<Listener(r.httpManager[1])>>))]

\* The set of outcomes [outcome, snapshot] of makeSnapshot on a service
\* configuration, with the JWKS endpoints answering as jwks says.
makeSnapshot(m, serviceConfig, jwks) ==
  IF Len(serviceConfig.apis) = 0 THEN {[outcome |-> "error", snapshot |-> Nil]}
  ELSE LET endpointApi == serviceConfig.apis[1]
           protocol    == BackendProtocol(endpointApi.fileName)
           st == CollectProviders([stopped |-> FALSE, providers |-> <<>>],
                                  serviceConfig.providers, jwks, 1)
       IN  IF protocol = "unknown" THEN {[outcome |-> "error", snapshot |-> Nil]}
           ELSE {SnapshotFrom(m, endpointApi, r)
                 : r \in ListenerFrom(serviceConfig, endpointApi, protocol, st.providers)}

(***************************************************************************)
(* Inputs: the values the service configuration document is drawn from.    *)
(***************************************************************************)
MaxApis == 2
MaxHttpRules == 2
MaxUsageRules == 2
MaxProviders == 2

Api(name, methods, fileName) == [name |-> name, methods |-> methods, fileName |-> fileName]
HttpRule(selector, kind, path) == [selector |-> selector, kind |-> kind, path |-> path]
UsageRule(selector, allow) == [selector |-> selector, allowUnregisteredCalls |-> allow]
AuthProvider(id, issuer, jwksUri, audiences) ==
  [id |-> id, issuer |-> issuer, jwksUri |-> jwksUri, audiences |-> audiences]
AuthRequirement(providerId, audiences) == [providerId |-> providerId, audiences |-> audiences]
AuthRule(selector, requirements) == [selector |-> selector, requirements |-> requirements]
ConfigFile(fileType, contents) == [fileType |-> fileType, fileContents |-> contents]

Service(name, environment, apis, http, usage, providers, authRules, sourceFiles) ==
  [ name |-> name, environment |-> environment, apis |-> apis, http |-> http,
    usage |-> usage, providers |-> providers, authRules |-> authRules,
    sourceFiles |-> sourceFiles ]

ServiceName == "echo.cloud.goog"
Environment == "servicecontrol.googleapis.com"

\* APIs whose methods give the selectors lib.Get and lib.v1.Get, the second one
\* both as method v1.Get of lib and as method Get of lib.v1
ScApis ==
  { Api("lib", <<"Get">>, "lib.proto"),
    Api("lib", <<"Get", "v1.Get">>, "lib.proto"),
    Api("lib.v1", <<"Get">>, "lib.proto"),
    Api("lib", <<>>, "lib.proto") }

HttpRuleValues ==
  { HttpRule("lib.Get", "get", "/v1/shelves/{shelf}"),
    HttpRule("lib.Get", "post", "/v1/shelves"),
    HttpRule("lib.Get", "none", ""),
    HttpRule("lib.v1.Get", "delete", "/v1/shelves/{shelf}"),
    HttpRule("lib.v1.Get", "patch", "/v1/shelves/{shelf}"),
    HttpRule("lib.v1.Get", "custom", "/v1/any"),
    HttpRule("lib.Missing", "put", "/v1/missing"),
    HttpRule("lib.Missing", "custom", "/v1/missing") }

UsageRuleValues ==
  { UsageRule("lib.Get", TRUE), UsageRule("lib.Get", FALSE),
    UsageRule("lib.v1.Get", TRUE), UsageRule("lib.Missing", FALSE) }

JwksUris == {"https://issuer.example/jwks", "https://accounts.example/certs"}

ProviderValues ==
  { AuthProvider("issuer", "issuer.example", "https://issuer.example/jwks", ""),
    AuthProvider("accounts", "accounts.example", "https://accounts.example/certs", "aud1,aud2") }

AuthRuleValues ==
  { AuthRule("lib.Get", <<AuthRequirement("issuer", "")>>),
    AuthRule("lib.v1.Get", <<AuthRequirement("issuer", "aud1,aud2"), AuthRequirement("accounts", "")>>),
    AuthRule("lib.Get", <<>>) }

SourceFileValues ==
  { ConfigFile("FILE_DESCRIPTOR_SET_PROTO", "descriptor-1"),
    ConfigFile("OPEN_API_YAML", "swagger") }

JwksResponses ==
  { [status |-> 200, body |-> "{keys-1}"], [status |-> 200, body |-> "{keys-2}"],
    [status |-> 404, body |-> ""], [status |-> 0, body |-> ""] }

\* What the service management server answers: status 0 stands for a failed
\* client.Do; parse tells what jsonpb makes of the body of a 200.
NoService == Service("", "", <<>>, <<>>, <<>>, <<>>, <<>>, <<>>)
Answer(service) == [status |-> 200, parse |-> "ok", service |-> service]
FailedAnswers ==
  { [status |-> 0,   parse |-> "ok", service |-> NoService],
    [status |-> 403, parse |-> "ok", service |-> NoService],
    [status |-> 200, parse |-> "syntax error", service |-> NoService],
    [status |-> 200, parse |-> "unexpected protobuf.Any type", service |-> NoService] }

\* the arguments NewConfigManager is called with
Managers ==
  { [serviceName |-> "echo.cloud.goog",  configID |-> "2019-01-17r0"],
    [serviceName |-> "books.cloud.goog", configID |-> "2019-02-01r3"] }

NodeIds == {node, "sidecar"}

(***************************************************************************)
(* State                                                                   *)
(***************************************************************************)
VARIABLES
  m,             \* the ConfigManager: serviceName, configID
  management,    \* the answer of the service management server
  jwks,          \* the answer of each JWKS endpoint
  pc,            \* where NewConfigManager is
  token,         \* the access token fetchConfig holds
  serviceConfig, \* the fetched service configuration, a pointer
  loop,          \* the provider loop of makeJwtAuthnFilter: index, stopped, providers
  snapshot,      \* the snapshot makeSnapshot returned, a pointer
  cache,         \* m.cache: the snapshot held for each node id, a pointer
  ret,           \* what NewConfigManager returned: manager, err
  calls,         \* the calls made so far to collaborators, in order
  runs,          \* results of repeated makeSnapshot calls on one input
  seen,          \* what discovery clients have read from the cache, in order
  proxy          \* the request the proxy is handling and what it made of it

vars == <<m, management, jwks, pc, token, serviceConfig, loop, snapshot, cache, ret, calls, runs, seen, proxy>>

NoLoop == [i |-> 0, stopped |-> FALSE, providers |-> <<>>]
NoReturn == [returned |-> FALSE, manager |-> FALSE, err |-> "", panicked |-> FALSE]

InitManager ==
  /\ pc = "NewConfigManager"
  /\ token = ""
  /\ serviceConfig = Nil
  /\ loop = NoLoop
  /\ snapshot = Nil
  /\ cache = [n \in NodeIds |-> Nil]
  /\ ret = NoReturn
  /\ calls = <<>>
  /\ runs = <<>>
  /\ seen = <<>>
  /\ proxy = <<>>

(***************************************************************************)
(* NewConfigManager, init, fetchConfig, makeSnapshot step by step.  A step *)
(* ends where the code calls out to a collaborator.                        *)
(***************************************************************************)
Call(op, arg) == [op |-> op, arg |-> arg]

\* init going on to publish although err is set
ReturnError_Ignored(msg) ==
  /\ pc' = "SetSnapshot"
  /\ ret' = ret

\* init returns err, so NewConfigManager returns (nil, err)
ReturnError(msg) ==
  /\ pc' = "failed"
  /\ ret' = [returned |-> TRUE, manager |-> FALSE, err |-> msg, panicked |-> FALSE]

\* the config id init passes to fetchConfig
FetchedConfigId(mgr) == mgr.configID

\* NewConfigManager has built m and its cache and calls m.init()
CallInit ==
  /\ pc = "NewConfigManager"
  /\ pc' = "fetchAccessToken"
  /\ UNCHANGED <<m, management, jwks, token, serviceConfig, loop, snapshot, cache, ret, calls, runs, seen, proxy>>

\* fetchConfig: token, _, err := fetchAccessToken()
FetchAccessToken ==
  /\ pc = "fetchAccessToken"
  /\ calls' = Append(calls, Call("fetchAccessToken", tokenUri))
  /\ \E ok \in BOOLEAN :
       IF ok
       THEN /\ token' = "ya29.token"
            /\ pc' = "callServiceManagement"
            /\ ret' = ret
       ELSE /\ token' = token
            /\ ReturnError("fail to initialize config manager, fail to get access token")
  /\ UNCHANGED <<m, management, jwks, serviceConfig, loop, snapshot, cache, runs, seen, proxy>>

\* callServiceManagement(fetchConfigURL(m.serviceName, configId), token, m.client)
CallServiceManagement ==
  /\ pc = "callServiceManagement"
  /\ calls' = Append(calls, Call("callServiceManagement",
                                 fetchConfigURL(m.serviceName, FetchedConfigId(m))))
  /\ IF management.status = 0
     THEN /\ ReturnError("fail to initialize config manager, connection refused")
          /\ serviceConfig' = serviceConfig
     ELSE IF management.status # 200
     THEN /\ ReturnError("fail to initialize config manager, http call to service management returns not 200 OK")
          /\ serviceConfig' = serviceConfig
     ELSE IF management.parse # "ok"
     THEN /\ ReturnError("fail to initialize config manager, fail to unmarshal serviceConfig: "
                         \o management.parse)
          /\ serviceConfig' = serviceConfig
     ELSE /\ serviceConfig' = Ptr(management.service)
          /\ pc' = "makeSnapshot"
          /\ ret' = ret
  /\ UNCHANGED <<m, management, jwks, token, loop, snapshot, cache, runs, seen, proxy>>

\* makeSnapshot up to the first JWKS fetch: the check of the API list, the
\* protocol switch of makeListener, the entry of makeJwtAuthnFilter
EnterMakeSnapshot ==
  /\ pc = "makeSnapshot"
  /\ LET sc == serviceConfig[1] IN
       IF Len(sc.apis) = 0
       THEN /\ ReturnError("fail to make a snapshot, service config must have one api at least")
            /\ loop' = loop
       ELSE IF BackendProtocol(sc.apis[1].fileName) = "unknown"
       THEN /\ ReturnError("fail to make a snapshot, unknown backend protocol")
            /\ loop' = loop
       ELSE /\ loop' = [i |-> 1, stopped |-> FALSE, providers |-> <<>>]
            /\ pc' = IF Len(sc.providers) = 0 THEN "makeListener" ELSE "fetchJwk"
            /\ ret' = ret
  /\ UNCHANGED <<m, management, jwks, token, serviceConfig, snapshot, cache, calls, runs, seen, proxy>>

\* one iteration of the provider loop of makeJwtAuthnFilter, with its fetchJwk
FetchJwk ==
  /\ pc = "fetchJwk"
  /\ LET provider == serviceConfig[1].providers[loop.i]
         st == ProviderStep([stopped |-> loop.stopped, providers |-> loop.providers],
                            provider, jwks[provider.jwksUri])
     IN  /\ calls' = Append(calls, Call("fetchJwk", provider.jwksUri))
         /\ loop' = [i |-> loop.i + 1, stopped |-> st.stopped, providers |-> st.providers]
         /\ pc' = IF st.stopped \/ loop.i + 1 > Len(serviceConfig[1].providers)
                  THEN "makeListener" ELSE "fetchJwk"
  /\ UNCHANGED <<m, management, jwks, token, serviceConfig, snapshot, cache, ret, runs, seen, proxy>>

\* the rest of makeListener and makeSnapshot: the filters, the connection
\* manager, the listener, the cluster and the snapshot; or the panic of
\* makeServiceControlFilter, which unwinds NewConfigManager
FinishMakeSnapshot ==
  /\ pc = "makeListener"
  /\ LET sc == serviceConfig[1] IN
     \E r \in ListenerFrom(sc, sc.apis[1], BackendProtocol(sc.apis[1].fileName), loop.providers) :
       LET res == SnapshotFrom(m, sc.apis[1], r) IN
         IF res.outcome = "panic"
         THEN /\ pc' = "panicked"
              /\ ret' = [ret EXCEPT !.panicked = TRUE]
              /\ snapshot' = snapshot
         ELSE /\ pc' = "SetSnapshot"
              /\ ret' = ret
              /\ snapshot' = res.snapshot
  /\ UNCHANGED <<m, management, jwks, token, serviceConfig, loop, cache, calls, runs, seen, proxy>>

\* the snapshot published under another key than the node id
PublishKey_Other == "sidecar"

\* the node id init publishes under
PublishKey == node

\* m.cache.SetSnapshot(*node, *snapshot)
SetSnapshot ==
  /\ pc = "SetSnapshot"
  /\ cache' = [cache EXCEPT ![PublishKey] = snapshot]
  /\ calls' = Append(calls, Call("SetSnapshot", PublishKey))
  /\ pc' = "return"
  /\ UNCHANGED <<m, management, jwks, token, serviceConfig, loop, snapshot, ret, runs, seen, proxy>>

\* init returns nil and NewConfigManager returns (m, nil)
ReturnManager ==
  /\ pc = "return"
  /\ pc' = "ready"
  /\ ret' = [returned |-> TRUE, manager |-> TRUE, err |-> "", panicked |-> FALSE]
  /\ UNCHANGED <<m, management, jwks, token, serviceConfig, loop, snapshot, cache, calls, runs, seen, proxy>>

Next ==
  \/ CallInit
  \/ FetchAccessToken
  \/ CallServiceManagement
  \/ EnterMakeSnapshot
  \/ FetchJwk
  \/ FinishMakeSnapshot
  \/ SetSnapshot
  \/ ReturnManager

(***************************************************************************)
(* Specifications: the same program over different families of inputs.     *)
(***************************************************************************)
GoodJwks == [u \in JwksUris |-> [status |-> 200, body |-> "{keys-1}"]]

\* documents that differ in the service name, the control environment, the
\* API list, the source files, the providers and one HTTP rule
LifeApis ==
  { Api("lib", <<"Get">>, "lib.proto"),
    Api("lib.v1", <<"Get", "List">>, "api/lib.yaml"),
    Api("lib", <<"Get">>, "lib.proto.txt") }

LifeServices ==
  { Service(n, e, a, h, <<>>, <<>>, <<>>, f) :
      n \in {"", ServiceName}, e \in {"", Environment},
      a \in SeqsUpTo(LifeApis, MaxApis),
      h \in {<<>>, <<HttpRule("lib.Missing", "put", "/v1/missing")>>},
      f \in SeqsUpTo(SourceFileValues, 1) }

AuthServices ==
  { Service(ServiceName, e, <<a>>, <<>>, <<>>, p, r, <<ConfigFile("FILE_DESCRIPTOR_SET_PROTO", "descriptor-1")>>) :
      e \in {"", Environment},
      a \in {Api("lib", <<"Get">>, "lib.proto"), Api("lib.v1", <<"Get", "List">>, "api/lib.yaml")},
      p \in SeqsUpTo(ProviderValues, MaxProviders),
      r \in SeqsUpTo(AuthRuleValues, 1) }

LifeWorlds ==
  ((FailedAnswers \cup {Answer(s) : s \in LifeServices}) \X {GoodJwks})
    \cup ({Answer(s) : s \in AuthServices} \X [JwksUris -> JwksResponses])

Init ==
  /\ InitManager
  /\ m \in Managers
  /\ \E w \in LifeWorlds : management = w[1] /\ jwks = w[2]

Spec == Init /\ [][Next]_vars

\* documents that differ in the API list, the HTTP rules and the usage rules
ScRuleLists ==
  (SeqsUpTo(HttpRuleValues, MaxHttpRules) \X SeqsUpTo(UsageRuleValues, 1))
    \cup (SeqsUpTo(HttpRuleValues, 1) \X SeqsUpTo(UsageRuleValues, MaxUsageRules))

ScServices ==
  { Service(ServiceName, Environment, a, hu[1], hu[2], <<>>, <<>>, <<>>) :
      a \in SeqsUpTo(ScApis, MaxApis), hu \in ScRuleLists }

ScWorlds ==
  (FailedAnswers \cup {Answer(s) : s \in ScServices \cup AuthServices}) \X {GoodJwks}

InitSC ==
  /\ InitManager
  /\ m = [serviceName |-> "echo.cloud.goog", configID |-> "2019-01-17r0"]
  /\ \E w \in ScWorlds : management = w[1] /\ jwks = w[2]

SpecSC == InitSC /\ [][Next]_vars

(***************************************************************************)
(* Reading a built snapshot.                                               *)
(***************************************************************************)
Built == snapshot # Nil

HttpManagerOf(snap) == snap.listeners[1].filterChains[1].filters[1].config

FilterNames(snap) ==
  LET fs == HttpManagerOf(snap).httpFilters IN [i \in DOMAIN fs |-> fs[i].name]

HasFilter(snap, name) == \E i \in DOMAIN FilterNames(snap) : FilterNames(snap)[i] = name

\* the rules of the service-control filter of a snapshot that has one
ScRules(snap) ==
  LET fs == HttpManagerOf(snap).httpFilters
      k  == CHOOSE i \in DOMAIN fs : fs[i].name = ServiceControl
  IN  fs[k].config.rules

ScEmitted == Built /\ HasFilter(snapshot[1], ServiceControl)

\* the (api, method) index pairs of a document
MethodsOf(sc) == {ij \in (DOMAIN sc.apis) \X (1..8) : ij[2] \in DOMAIN sc.apis[ij[1]].methods}

DottedName(sc, ij) == sc.apis[ij[1]].name \o "." \o sc.apis[ij[1]].methods[ij[2]]

(***************************************************************************)
(* C1: whenever the service-control filter is emitted, every method of     *)
(* every API has exactly one rule whose operation name is                  *)
(* "<api_name>.<method_name>", also when two methods give the same         *)
(* selector, and every rule's operation name is such a selector.           *)
(***************************************************************************)
C1_OneRulePerMethod ==
  ScEmitted =>
    LET rules == ScRules(snapshot[1])
        sc    == serviceConfig[1]
    IN  /\ \A ij \in MethodsOf(sc) :
             Cardinality({k \in DOMAIN rules : rules[k].operationName = DottedName(sc, ij)}) = 1
        /\ \A k \in DOMAIN rules :
             \E ij \in MethodsOf(sc) : rules[k].operationName = DottedName(sc, ij)

\* two methods of different APIs give the same selector, and one rule is emitted for it
C1_Witness ==
  /\ ScEmitted
  /\ LET sc == serviceConfig[1] IN
       /\ \E ij, kl \in MethodsOf(sc) :
            ij[1] # kl[1] /\ sc.apis[ij[1]].name # sc.apis[kl[1]].name
              /\ DottedName(sc, ij) = DottedName(sc, kl)
       /\ Len(ScRules(snapshot[1])) = 2

(***************************************************************************)
(* C2 as stated: for every entry of http.rules, the rule whose operation   *)
(* name is the entry's selector has the entry's (verb, template) pair as   *)
(* its pattern, also when several entries name one selector and when the   *)
(* entry's pattern is none of GET/PUT/POST/DELETE/PATCH (the custom        *)
(* patterns of the inputs are HEAD patterns).                              *)
(***************************************************************************)
\* the verb an entry of http.rules declares
DeclaredVerb(kind) ==
  CASE kind = "get"    -> "GET"
    [] kind = "put"    -> "PUT"
    [] kind = "post"   -> "POST"
    [] kind = "delete" -> "DELETE"
    [] kind = "patch"  -> "PATCH"
    [] kind = "custom" -> "HEAD"
    [] OTHER           -> ""

C2_EveryEntryIsThePattern ==
  ScEmitted =>
    LET rules == ScRules(snapshot[1])
        http  == serviceConfig[1].http
    IN  \A i \in DOMAIN http : \A k \in DOMAIN rules :
          (http[i].kind # "none" /\ rules[k].operationName = http[i].selector) =>
            rules[k].pattern = [uriTemplate |-> http[i].path,
                                httpMethod  |-> DeclaredVerb(http[i].kind)]

(***************************************************************************)
(* C2 amended: the pattern of the rule of a selector is the (verb,         *)
(* template) pair of the last entry of http.rules that names the selector  *)
(* with a GET, PUT, POST, DELETE or PATCH pattern, the template unchanged; *)
(* entries with another pattern or none change nothing, and a rule no such *)
(* entry names keeps a seeded POST pattern.                                *)
(***************************************************************************)
C2_LastHandledEntryIsThePattern ==
  ScEmitted =>
    LET rules == ScRules(snapshot[1])
        sc    == serviceConfig[1]
        http  == sc.http
    IN  \A k \in DOMAIN rules :
          LET named == {i \in DOMAIN http :
                          /\ http[i].selector = rules[k].operationName
                          /\ http[i].kind \in {"get", "put", "post", "delete", "patch"}}
          IN  IF named = {}
              THEN /\ rules[k].pattern.httpMethod = "POST"
                   /\ \E ij \in MethodsOf(sc) :
                        /\ DottedName(sc, ij) = rules[k].operationName
                        /\ rules[k].pattern.uriTemplate =
                             "/" \o sc.apis[ij[1]].name \o "/" \o sc.apis[ij[1]].methods[ij[2]]
              ELSE LET last == CHOOSE i \in named : \A j \in named : j <= i
                   IN  rules[k].pattern = [uriTemplate |-> http[last].path,
                                           httpMethod  |-> DeclaredVerb(http[last].kind)]

\* two entries with different verbs name one selector, and its rule has the second one's pattern
C2_Witness ==
  /\ ScEmitted
  /\ LET http == serviceConfig[1].http IN
       /\ Len(http) = 2
       /\ http[1].selector = http[2].selector
       /\ http[1].kind = "get" /\ http[2].kind = "post"
       /\ \E k \in DOMAIN ScRules(snapshot[1]) :
            /\ ScRules(snapshot[1])[k].operationName = http[2].selector
            /\ ScRules(snapshot[1])[k].pattern = [uriTemplate |-> http[2].path, httpMethod |-> "POST"]

(***************************************************************************)
(* C3 as stated: for every entry of usage.rules, the rule of the entry's   *)
(* selector carries an API-key requirement whose allow_without_api_key is  *)
(* the entry's allow_unregistered_calls and whose key sources are          *)
(* [query "key", header "x-api-key"]; a rule no usage rule names carries   *)
(* no API-key requirement.                                                 *)
(***************************************************************************)
KeySources == << [kind |-> "query", name |-> "key"], [kind |-> "header", name |-> "x-api-key"] >>

C3_EveryUsageRuleIsTheRequirement ==
  ScEmitted =>
    LET rules == ScRules(snapshot[1])
        usage == serviceConfig[1].usage
    IN  /\ \A i \in DOMAIN usage : \A k \in DOMAIN rules :
             rules[k].operationName = usage[i].selector =>
               rules[k].apiKey = << [allowWithoutApiKey |-> usage[i].allowUnregisteredCalls,
                                     apiKeys |-> KeySources] >>
        /\ \A k \in DOMAIN rules :
             (\A i \in DOMAIN usage : usage[i].selector # rules[k].operationName)
               => rules[k].apiKey = <<>>

(***************************************************************************)
(* C3 amended: the rule of a selector that usage.rules names carries an    *)
(* API-key requirement whose allow_without_api_key is the                  *)
(* allow_unregistered_calls of the last entry of usage.rules with that     *)
(* selector and whose key sources are [query "key", header "x-api-key"] in *)
(* that order; a rule no usage rule names carries no API-key requirement.  *)
(***************************************************************************)
C3_LastUsageRuleIsTheRequirement ==
  ScEmitted =>
    LET rules == ScRules(snapshot[1])
        usage == serviceConfig[1].usage
    IN  \A k \in DOMAIN rules :
          LET named == {i \in DOMAIN usage : usage[i].selector = rules[k].operationName}
          IN  IF named = {} THEN rules[k].apiKey = <<>>
              ELSE LET last == CHOOSE i \in named : \A j \in named : j <= i
                   IN  rules[k].apiKey =
                         << [allowWithoutApiKey |-> usage[last].allowUnregisteredCalls,
                             apiKeys |-> KeySources] >>

\* a usage rule allows unregistered calls for one selector of two, and only
\* that selector's rule carries the requirement
C3_Witness ==
  /\ ScEmitted
  /\ LET rules == ScRules(snapshot[1])
         usage == serviceConfig[1].usage
     IN  /\ Len(usage) = 2 /\ Len(rules) = 2
         /\ usage[1].selector = usage[2].selector
         /\ ~usage[1].allowUnregisteredCalls /\ usage[2].allowUnregisteredCalls
         /\ \E k \in DOMAIN rules :
              /\ rules[k].operationName = usage[2].selector
              /\ rules[k].apiKey # <<>>
              /\ rules[k].apiKey[1].allowWithoutApiKey
         /\ \E k \in DOMAIN rules : rules[k].apiKey = <<>>

(***************************************************************************)
(* C4: the HTTP filter list of every connection manager makeListener       *)
(* produces is a subsequence of [jwt_authn, service_control, transcoder,   *)
(* router] in that order: each optional filter at most once, the router    *)
(* exactly once and last.                                                  *)
(***************************************************************************)
FilterOrder == <<JwtAuthn, ServiceControl, GRPCJSONTranscoder, Router>>

Picked(keep) == LET In(x) == x \in keep IN SelectSeq(FilterOrder, In)

C4_FilterOrder ==
  Built =>
    LET names == FilterNames(snapshot[1]) IN
      /\ \E keep \in SUBSET Range(FilterOrder) : names = Picked(keep)
      /\ Len(names) >= 1
      /\ names[Len(names)] = Router
      /\ \A x \in Range(FilterOrder) : Cardinality({i \in DOMAIN names : names[i] = x}) <= 1
      /\ Cardinality({i \in DOMAIN names : names[i] = Router}) = 1

\* all three optional filters are emitted
C4_Witness == Built /\ Len(FilterNames(snapshot[1])) = 4

\* only the transcoder is emitted besides the router
C4_WitnessTranscoderOnly ==
  Built /\ FilterNames(snapshot[1]) = <<GRPCJSONTranscoder, Router>>

(***************************************************************************)
(* C5: every snapshot in the cache has the version config_id the manager   *)
(* was constructed with, and the service document was fetched from the URL *)
(* of that same config_id.                                                 *)
(***************************************************************************)
C5_VersionIsConfigId ==
  \A n \in NodeIds :
    cache[n] # Nil =>
      /\ cache[n][1].version = m.configID
      /\ \E i \in DOMAIN calls :
           /\ calls[i].op = "callServiceManagement"
           /\ calls[i].arg = "https://servicemanagement.googleapis.com/v1/services/"
                               \o m.serviceName \o "/configs/" \o m.configID \o "?view=FULL"

\* a snapshot is published by the manager of books.cloud.goog, whose service
\* name differs from the name inside the document
C5_Witness ==
  /\ cache[node] # Nil
  /\ m.configID = "2019-02-01r3"
  /\ serviceConfig[1].name # m.serviceName

(***************************************************************************)
(* C6: in every snapshot makeSnapshot returns, the cluster the listener's  *)
(* single route (prefix "/" of the single virtual host) names is a cluster *)
(* of the snapshot; both carry the name of the first API; the snapshot has *)
(* one cluster, one listener and no endpoints or routes.                   *)
(***************************************************************************)
C6_RouteClusterExists ==
  Built =>
    LET snap  == snapshot[1]
        hosts == HttpManagerOf(snap).routeConfig.virtualHosts
    IN  /\ Len(snap.clusters) = 1 /\ Len(snap.listeners) = 1
        /\ snap.endpoints = <<>> /\ snap.routes = <<>>
        /\ Len(hosts) = 1 /\ Len(hosts[1].routes) = 1
        /\ hosts[1].routes[1].prefix = "/"
        /\ \E c \in DOMAIN snap.clusters : snap.clusters[c].name = hosts[1].routes[1].cluster
        /\ hosts[1].routes[1].cluster = serviceConfig[1].apis[1].name
        /\ snap.clusters[1].name = serviceConfig[1].apis[1].name

\* a snapshot is built from a document whose second API has another name
C6_Witness ==
  /\ Built
  /\ Len(serviceConfig[1].apis) = 2
  /\ serviceConfig[1].apis[2].name # serviceConfig[1].apis[1].name
  /\ snapshot[1].clusters[1].name = "lib"

(***************************************************************************)
(* makeSnapshot applied repeatedly to one service document, with the JWKS  *)
(* endpoints answering the same way each time.                             *)
(***************************************************************************)
MaxRuns == 2

IdemServices ==
  { Service(ServiceName, Environment, a, h, u, p, r, f) :
      a \in SeqsUpTo(ScApis, MaxApis),
      h \in SeqsUpTo({HttpRule("lib.Get", "get", "/v1/shelves/{shelf}"),
                      HttpRule("lib.Missing", "put", "/v1/missing")}, 1),
      u \in SeqsUpTo({UsageRule("lib.v1.Get", TRUE)}, 1),
      p \in SeqsUpTo(ProviderValues, 1),
      r \in SeqsUpTo(AuthRuleValues, 1),
      f \in SeqsUpTo(SourceFileValues, 1) }

InitIdem ==
  /\ InitManager
  /\ m \in Managers
  /\ management \in {Answer(s) : s \in IdemServices}
  /\ jwks \in {GoodJwks, [u \in JwksUris |-> [status |-> 404, body |-> ""]]}

\* one more call of makeSnapshot on the same document
MakeSnapshotAgain ==
  /\ Len(runs) < MaxRuns
  /\ \E r \in makeSnapshot(m, management.service, jwks) : runs' = Append(runs, r)
  /\ UNCHANGED <<m, management, jwks, pc, token, serviceConfig, loop, snapshot, cache, ret, calls, seen, proxy>>

NextIdem == MakeSnapshotAgain

SpecIdem == InitIdem /\ [][NextIdem]_vars

FiltersOfRun(r) == HttpManagerOf(r.snapshot[1]).httpFilters

SameUpToRuleOrder(f, g) ==
  /\ f.name = g.name
  /\ IF f.name = ServiceControl
     THEN /\ [f.config EXCEPT !.rules = <<>>] = [g.config EXCEPT !.rules = <<>>]
          /\ Len(f.config.rules) = Len(g.config.rules)
          /\ Range(f.config.rules) = Range(g.config.rules)
     ELSE f = g

Called(op) == \E i \in DOMAIN calls : calls[i].op = op

CountCalls(op) == Cardinality({i \in DOMAIN calls : calls[i].op = op})

\* the state of the startup state machine the program position belongs to
Phase(p) ==
  CASE p = "NewConfigManager" -> "INIT"
    [] p \in {"fetchAccessToken", "callServiceManagement"} -> "FETCH_CONFIG"
    [] p \in {"makeSnapshot", "fetchJwk", "makeListener"} -> "BUILD"
    [] p \in {"SetSnapshot", "return"} -> "PUBLISH"
    [] p = "ready" -> "READY"
    [] p \in {"failed", "panicked"} -> "FATAL"

(***************************************************************************)
(* C8: once startup has hit a fatal error (no access token, a failed or    *)
(* non-200 call to service management, a body that does not parse or has   *)
(* an unknown Any type, a document without APIs, a first API whose source  *)
(* file ends in neither .proto nor .yaml), NewConfigManager has returned   *)
(* an error and no manager, SetSnapshot was not called and the cache holds *)
(* no snapshot for any node id.                                            *)
(***************************************************************************)
TokenFailed == Called("fetchAccessToken") /\ token = ""

ManagementFailed ==
  Called("callServiceManagement") /\ (management.status # 200 \/ management.parse # "ok")

DocumentRejected ==
  /\ serviceConfig # Nil
  /\ pc # "makeSnapshot"
  /\ \/ Len(serviceConfig[1].apis) = 0
     \/ LET f == serviceConfig[1].apis[1].fileName
            n == Len(f)
        IN  /\ ~(n >= 6 /\ SubSeq(f, n - 5, n) = ".proto")
            /\ ~(n >= 5 /\ SubSeq(f, n - 4, n) = ".yaml")

C8_FatalErrorPublishesNothing ==
  (TokenFailed \/ ManagementFailed \/ DocumentRejected) =>
    /\ pc = "failed"
    /\ ret.returned /\ ~ret.manager /\ ret.err # ""
    /\ ~Called("SetSnapshot")
    /\ \A n \in NodeIds : cache[n] = Nil

\* startup failed on a first API whose source file is lib.proto.txt
C8_Witness ==
  /\ pc = "failed"
  /\ serviceConfig # Nil
  /\ Len(serviceConfig[1].apis) > 0
  /\ serviceConfig[1].apis[1].fileName = "lib.proto.txt"
  /\ ret.err = "fail to make a snapshot, unknown backend protocol"

(***************************************************************************)
(* C9: startup goes INIT, FETCH_CONFIG, BUILD, PUBLISH, READY, each step   *)
(* complete before the next begins: no JWKS endpoint is contacted and no   *)
(* snapshot exists before the service document is fetched, the cache is    *)
(* written only with the whole built snapshot, a failure of FETCH_CONFIG   *)
(* or BUILD ends in FATAL and never in PUBLISH, and nothing happens after  *)
(* READY or FATAL.                                                         *)
(***************************************************************************)
PhaseSteps ==
  { <<"INIT", "FETCH_CONFIG">>,
    <<"FETCH_CONFIG", "FETCH_CONFIG">>, <<"FETCH_CONFIG", "BUILD">>, <<"FETCH_CONFIG", "FATAL">>,
    <<"BUILD", "BUILD">>, <<"BUILD", "PUBLISH">>, <<"BUILD", "FATAL">>,
    <<"PUBLISH", "PUBLISH">>, <<"PUBLISH", "READY">> }

C9_PhaseState ==
  /\ Phase(pc) \in {"INIT", "FETCH_CONFIG"} =>
       /\ serviceConfig = Nil /\ snapshot = Nil /\ loop = NoLoop
       /\ ~Called("fetchJwk") /\ ~Called("SetSnapshot")
  /\ Phase(pc) = "BUILD" =>
       /\ serviceConfig # Nil /\ snapshot = Nil
       /\ Called("callServiceManagement") /\ ~Called("SetSnapshot")
  /\ Phase(pc) \in {"INIT", "FETCH_CONFIG", "BUILD", "FATAL"} => \A n \in NodeIds : cache[n] = Nil
  /\ Phase(pc) \in {"PUBLISH", "READY"} => serviceConfig # Nil /\ snapshot # Nil
  /\ Called("SetSnapshot") => snapshot # Nil /\ cache[node] = snapshot
  /\ \A i, j \in DOMAIN calls :
       (calls[i].op = "callServiceManagement" /\ calls[j].op \in {"fetchJwk", "SetSnapshot"}) => i < j
  /\ \A i, j \in DOMAIN calls :
       (calls[i].op = "fetchJwk" /\ calls[j].op = "SetSnapshot") => i < j

C9_PhaseStep ==
  /\ <<Phase(pc), Phase(pc')>> \in PhaseSteps
  /\ (pc = "SetSnapshot" /\ pc' # pc) => (cache'[node] = snapshot /\ snapshot' = snapshot)

C9_StartupSequence == []C9_PhaseState /\ [][C9_PhaseStep]_vars

\* READY is reached after two JWKS endpoints were contacted
C9_Witness ==
  /\ pc = "ready"
  /\ CountCalls("fetchJwk") = 2
  /\ cache[node] = snapshot /\ snapshot # Nil

(***************************************************************************)
(* C10: in the lifetime of a ConfigManager the cache is written at most    *)
(* once, and exactly once when startup succeeds; the write is SetSnapshot  *)
(* under the configured node id and no other key, and after it neither the *)
(* cache nor the snapshot changes.                                         *)
(***************************************************************************)
C10_WriteState ==
  /\ CountCalls("SetSnapshot") <= 1
  /\ ret.manager => CountCalls("SetSnapshot") = 1
  /\ (ret.returned /\ ~ret.manager) => CountCalls("SetSnapshot") = 0
  /\ \A i \in DOMAIN calls : calls[i].op = "SetSnapshot" => calls[i].arg = "api_proxy"
  /\ \A n \in NodeIds : n # "api_proxy" => cache[n] = Nil
  /\ (cache["api_proxy"] # Nil) <=> (CountCalls("SetSnapshot") = 1)

C10_WriteStep ==
  /\ cache' # cache => (cache["api_proxy"] = Nil /\ CountCalls("SetSnapshot") = 0)
  /\ Called("SetSnapshot") => (cache' = cache /\ snapshot' = snapshot)

C10_SingleWrite == []C10_WriteState /\ [][C10_WriteStep]_vars

\* startup succeeded and the cache holds the snapshot under the node id
C10_Witness ==
  /\ ret.manager
  /\ cache[node] # Nil
  /\ cache[node] = snapshot
  /\ CountCalls("SetSnapshot") = 1

(***************************************************************************)
(* Discovery clients pulling from the cache while the manager starts up.   *)
(* The discovery server answers a pull from m.Cache(), under the key the   *)
(* ID hook extracts from the client's node.                                *)
(***************************************************************************)
MaxPulls == 2

Clients == {"envoy-1", "envoy-2"}

\* func (m *ConfigManager) ID(node *core.Node) string
ID(clientNode) == clientNode.id

\* one pull: the client reads the cache entry of its node id
ClientPull ==
  /\ Len(seen) < MaxPulls
  /\ \E c \in Clients, n \in NodeIds :
       LET clientNode == [id |-> n]
       IN  seen' = Append(seen, [client |-> c, key |-> ID(clientNode),
                                 pc |-> pc, observed |-> cache[ID(clientNode)]])
  /\ UNCHANGED <<m, management, jwks, pc, token, serviceConfig, loop, snapshot, cache, ret, calls, runs, proxy>>

NextPull ==
  \/ Next
  \/ ClientPull

\* documents with at most one provider, and the failed answers
PullWorlds ==
  (FailedAnswers \cup {Answer(s) : s \in {d \in AuthServices : Len(d.providers) <= 1}})
    \X {GoodJwks}

InitPull ==
  /\ InitManager
  /\ m = [serviceName |-> "echo.cloud.goog", configID |-> "2019-01-17r0"]
  /\ \E w \in PullWorlds : management = w[1] /\ jwks = w[2]

SpecPull == InitPull /\ [][NextPull]_vars

\* the names of the clusters the listeners of a snapshot route to
RoutedClusters(snap) ==
  { snap.listeners[l].filterChains[1].filters[1].config.routeConfig.virtualHosts[1].routes[1].cluster
    : l \in DOMAIN snap.listeners }

\* a snapshot holding the cluster and the listener that routes to it
Complete(snap) ==
  /\ snap.clusters # <<>>
  /\ snap.listeners # <<>>
  /\ \A c \in RoutedClusters(snap) :
       \E i \in DOMAIN snap.clusters : snap.clusters[i].name = c

(***************************************************************************)
(* C11: publication is atomic for discovery clients.  Whenever a client    *)
(* reads the cache under a node id, at any point of startup, it finds      *)
(* either no snapshot or a complete one: the cluster together with the     *)
(* listener that routes to it.  No cache entry and no observation ever     *)
(* holds the cluster without the listener or the listener without the      *)
(* cluster.                                                                *)
(***************************************************************************)
C11_AtomicPublication ==
  /\ \A n \in NodeIds : cache[n] = Nil \/ Complete(cache[n][1])
  /\ \A i \in DOMAIN seen :
       \/ seen[i].observed = Nil
       \/ /\ seen[i].key = node
          /\ Complete(seen[i].observed[1])
          /\ seen[i].observed = snapshot

\* one client pulled under the node id while the snapshot was being built
\* and found nothing, another pulled after the write and found the snapshot
C11_Witness ==
  /\ Len(seen) = 2
  /\ seen[1].key = node /\ seen[1].pc = "SetSnapshot" /\ seen[1].observed = Nil
  /\ seen[2].key = node /\ seen[2].client # seen[1].client
  /\ seen[2].observed # Nil
  /\ Len(seen[2].observed[1].clusters) = 1
  /\ Len(seen[2].observed[1].listeners) = 1

(***************************************************************************)
(* Reading the provider loop of makeJwtAuthnFilter.                        *)
(***************************************************************************)
\* the position of the first provider whose JWKS fetch fails, or one past
\* the end of the list when every fetch succeeds
FirstFailure(provs, answers) ==
  LET failing == {i \in DOMAIN provs : fetchJwk(answers[provs[i].jwksUri]).err}
  IN  IF failing = {} THEN Len(provs) + 1
      ELSE CHOOSE i \in failing : \A j \in failing : i <= j

\* the addresses fetchJwk was called with, in call order
FetchedUris ==
  LET fetches == SelectSeq(calls, LAMBDA c : c.op = "fetchJwk")
  IN  [i \in DOMAIN fetches |-> fetches[i].arg]

\* the provider loop has ended
LoopDone ==
  /\ serviceConfig # Nil
  /\ pc \in {"makeListener", "SetSnapshot", "return", "ready", "panicked"}

\* the ways makeSnapshot can end on a document under given JWKS answers
Outcomes(doc, answers) == {r.outcome : r \in makeSnapshot(m, doc, answers)}

(***************************************************************************)
(* C12: when the JWKS fetch fails for the provider at position k, no later *)
(* provider is fetched or included: the fetches are those of positions 1   *)
(* to k, and the provider map holds exactly the providers before k, keyed  *)
(* by id (the last one of an id counts).  The JWT filter is emitted        *)
(* exactly when that map is not empty, with that map as its providers.  A  *)
(* failed JWKS fetch never makes startup fail: startup ends as it does     *)
(* when every fetch succeeds.                                              *)
(***************************************************************************)
C12_FetchFailureStopsTheLoop ==
  LoopDone =>
    LET provs == serviceConfig[1].providers
        k     == FirstFailure(provs, jwks)
        last  == IF k <= Len(provs) THEN k ELSE Len(provs)
    IN  /\ FetchedUris = [i \in 1..last |-> provs[i].jwksUri]
        /\ DOMAIN loop.providers = {provs[i].id : i \in 1..(k - 1)}
        /\ \A i \in 1..(k - 1) :
             (\A j \in (i + 1)..(k - 1) : provs[j].id # provs[i].id) =>
               loop.providers[provs[i].id] =
                 JwtProvider(provs[i], jwks[provs[i].jwksUri].body)
        /\ Built =>
             /\ HasFilter(snapshot[1], JwtAuthn) <=> k > 1
             /\ k > 1 =>
                  \E f \in DOMAIN HttpManagerOf(snapshot[1]).httpFilters :
                    LET filter == HttpManagerOf(snapshot[1]).httpFilters[f]
                    IN  filter.name = JwtAuthn /\ filter.config.providers = loop.providers
        /\ k <= Len(provs) =>
             /\ ret.err = "" /\ ~ret.panicked
             /\ pc # "panicked"
             /\ Outcomes(serviceConfig[1], jwks) = Outcomes(serviceConfig[1], GoodJwks)

\* the fetch of the first of two different providers failed and the second
\* one would have succeeded: one fetch, no JWT filter, startup succeeded
C12_Witness ==
  /\ pc = "ready" /\ ret.manager
  /\ Len(serviceConfig[1].providers) = 2
  /\ serviceConfig[1].providers[1].id # serviceConfig[1].providers[2].id
  /\ jwks[serviceConfig[1].providers[1].jwksUri].status = 404
  /\ jwks[serviceConfig[1].providers[2].jwksUri].status = 200
  /\ CountCalls("fetchJwk") = 1
  /\ ~HasFilter(cache[node][1], JwtAuthn)

(***************************************************************************)
(* Documents with several authentication rules.                            *)
(***************************************************************************)
MaxAuthRules == 2

JwtRuleValues ==
  AuthRuleValues \cup
    { AuthRule("lib.v1.List", <<AuthRequirement("accounts", "aud1,aud2")>>) }

JwtProviderLists ==
  { <<>>,
    <<AuthProvider("issuer", "issuer.example", "https://issuer.example/jwks", "")>>,
    <<AuthProvider("issuer", "issuer.example", "https://issuer.example/jwks", ""),
      AuthProvider("accounts", "accounts.example", "https://accounts.example/certs", "aud1,aud2")>> }

JwtServices ==
  { Service(ServiceName, Environment, <<a>>, <<>>, <<>>, p, r,
            <<ConfigFile("FILE_DESCRIPTOR_SET_PROTO", "descriptor-1")>>) :
      a \in {Api("lib", <<"Get">>, "lib.proto"), Api("lib.v1", <<"Get", "List">>, "api/lib.yaml")},
      p \in JwtProviderLists,
      r \in SeqsUpTo(JwtRuleValues, MaxAuthRules) }

JwtWorlds ==
  (FailedAnswers \cup {Answer(s) : s \in JwtServices})
    \X { GoodJwks,
         [GoodJwks EXCEPT !["https://accounts.example/certs"] = [status |-> 404, body |-> ""]] }

InitJwt ==
  /\ InitManager
  /\ m = [serviceName |-> "echo.cloud.goog", configID |-> "2019-01-17r0"]
  /\ \E w \in JwtWorlds : management = w[1] /\ jwks = w[2]

SpecJwt == InitJwt /\ [][Next]_vars

\* the JWT filter of the built snapshot is emitted
JwtEmitted == Built /\ HasFilter(snapshot[1], JwtAuthn)

\* the requirement rules of the JWT filter of a snapshot that has one
JwtRulesOf(snap) ==
  LET fs == HttpManagerOf(snap).httpFilters
      k  == CHOOSE i \in DOMAIN fs : fs[i].name = JwtAuthn
  IN  fs[k].config.rules

\* the entries of authentication.rules that have at least one requirement
RulesWithRequirements(doc) ==
  SelectSeq(doc.authRules, LAMBDA rule : Len(rule.requirements) >= 1)

(***************************************************************************)
(* C13: when the JWT filter is emitted, its list of requirement rules      *)
(* holds, in input order, exactly one requirement rule for each entry of   *)
(* authentication.rules that has at least one requirement and none for an  *)
(* entry without requirements: such an entry is skipped and the entries    *)
(* after it still get their rules.                                         *)
(***************************************************************************)
C13_ZeroRequirementRuleSkipped ==
  JwtEmitted =>
    LET kept == RulesWithRequirements(serviceConfig[1])
    IN  JwtRulesOf(snapshot[1]) =
          [i \in DOMAIN kept |-> RequirementRule(kept[i], serviceConfig[1].apis[1].name)]

(***************************************************************************)
(* Methods without an HTTP binding.                                        *)
(***************************************************************************)
\* no entry of http.rules names the method's selector
Unbound(sc, ij) == \A i \in DOMAIN sc.http : sc.http[i].selector # DottedName(sc, ij)

\* the emitted rules whose operation name is the method's selector
RulesFor(sc, ij) ==
  LET rules == ScRules(snapshot[1])
  IN  {rules[k] : k \in {k \in DOMAIN rules : rules[k].operationName = DottedName(sc, ij)}}

\* the pattern seeded for a method
DefaultPattern(sc, ij) ==
  [ uriTemplate |-> "/" \o sc.apis[ij[1]].name \o "/" \o sc.apis[ij[1]].methods[ij[2]],
    httpMethod  |-> "POST" ]

\* method ij comes no later than method kl in the document
NotAfter(ij, kl) == ij[1] < kl[1] \/ (ij[1] = kl[1] /\ ij[2] <= kl[2])

\* the last method of the document that gives the selector of method ij
LastWithSelector(sc, ij) ==
  CHOOSE kl \in MethodsOf(sc) :
    /\ DottedName(sc, kl) = DottedName(sc, ij)
    /\ \A xy \in MethodsOf(sc) : DottedName(sc, xy) = DottedName(sc, ij) => NotAfter(xy, kl)

(***************************************************************************)
(* C14 as stated: in every emitted service-control filter, each method of  *)
(* each API that no http.rules entry names has the default pattern         *)
(* ("/<api_name>/<method_name>", POST) of its own API name and method      *)
(* name, whatever the other bindings and usage rules are.                  *)
(***************************************************************************)
C14_UnboundKeepsOwnDefault ==
  ScEmitted =>
    LET sc == serviceConfig[1]
    IN  \A ij \in MethodsOf(sc) :
          Unbound(sc, ij) => \A r \in RulesFor(sc, ij) : r.pattern = DefaultPattern(sc, ij)

(***************************************************************************)
(* C14 amended: in every emitted service-control filter, each method that  *)
(* no http.rules entry names has one rule, with the default pattern of the *)
(* last method of the document that gives the same selector string; that   *)
(* is its own default pattern unless a later method of an API with another *)
(* name gives the same selector.                                           *)
(***************************************************************************)
C14_UnboundKeepsSeededDefault ==
  ScEmitted =>
    LET sc == serviceConfig[1]
    IN  \A ij \in MethodsOf(sc) :
          Unbound(sc, ij) =>
            /\ RulesFor(sc, ij) # {}
            /\ \A r \in RulesFor(sc, ij) :
                 /\ r.pattern = DefaultPattern(sc, LastWithSelector(sc, ij))
                 /\ (\A kl \in MethodsOf(sc) :
                       DottedName(sc, kl) = DottedName(sc, ij) =>
                         sc.apis[kl[1]].name = sc.apis[ij[1]].name)
                      => r.pattern = DefaultPattern(sc, ij)

\* one method has an HTTP binding and a usage rule, and the method of the
\* second API, which nothing names, has its default pattern
C14_Witness ==
  /\ ScEmitted
  /\ LET sc == serviceConfig[1] IN
       /\ Len(sc.apis) = 2
       /\ sc.apis[1].name = "lib" /\ sc.apis[2].name = "lib.v1"
       /\ sc.http = <<HttpRule("lib.Get", "get", "/v1/shelves/{shelf}")>>
       /\ sc.usage = <<UsageRule("lib.Get", TRUE)>>
       /\ Unbound(sc, <<2, 1>>)
       /\ RulesFor(sc, <<2, 1>>) # {}
       /\ \A r \in RulesFor(sc, <<2, 1>>) :
            r.pattern = [uriTemplate |-> "/lib.v1/Get", httpMethod |-> "POST"]
       /\ \A r \in RulesFor(sc, <<1, 1>>) : r.pattern.httpMethod = "GET"

(***************************************************************************)
(* The proxy's path translation, as the backend rules of the dynamic       *)
(* routing test environment declare it and its test cases expect it.       *)
(***************************************************************************)
MaxQueryParams == 2

\* strings.Join(parts, sep)
RECURSIVE Join(_, _)
Join(parts, sep) ==
  IF Len(parts) = 0 THEN ""
  ELSE IF Len(parts) = 1 THEN parts[1]
  ELSE parts[1] \o sep \o Join(Tail(parts), sep)

\* an HTTP rule together with the backend rule of the same selector
Route(selector, verb, template, address, pathTranslation) ==
  [ selector |-> selector, verb |-> verb, template |-> template,
    address |-> address, pathTranslation |-> pathTranslation ]

\* the bindings of NewDynamicRoutingTestEnv
Routes ==
  << Route("GetPetById", "GET", "/pet/{pet_id}/num/{number}",
           "https://localhost:-1/dynamicrouting/getpetbyid", "CONSTANT_ADDRESS"),
     Route("SearchPet", "GET", "/searchpet",
           "https://localhost:-1/dynamicrouting/searchpet", "APPEND_PATH_TO_ADDRESS"),
     Route("SearchDogsWithSlash", "GET", "/searchdog",
           "https://localhost:-1/dynamicrouting/searchdogs/", "APPEND_PATH_TO_ADDRESS"),
     Route("AppendToRoot", "GET", "/searchroot",
           "https://localhost:-1", "APPEND_PATH_TO_ADDRESS"),
     Route("AppendToRootWithSlash", "GET", "/searchrootwithslash",
           "https://localhost:-1/", "APPEND_PATH_TO_ADDRESS"),
     Route("ListPets", "GET", "/pets/{category}/year/{no}",
           "https://localhost:-1/dynamicrouting/listpet", "APPEND_PATH_TO_ADDRESS"),
     Route("ListShelves", "GET", "/shelves",
           "https://localhost:-1/dynamicrouting/shelves", "CONSTANT_ADDRESS"),
     Route("GetBookInfoWithSnakeCase", "GET", "/shelves/{s_h_e_l_f}/books/info/{b_o_o_k}",
           "https://localhost:-1/dynamicrouting/bookinfo", "CONSTANT_ADDRESS"),
     Route("GetBookIdWithSnakeCase", "GET", "/shelves/{s_h_e_l_f.i_d}/books/id/{b_o_o_k.id}",
           "https://localhost:-1/dynamicrouting/bookid", "CONSTANT_ADDRESS"),
     Route("SearchPetWithServiceControlVerification", "POST", "/sc/searchpet",
           "https://localhost:-1/dynamicrouting/", "APPEND_PATH_TO_ADDRESS"),
     Route("GetPetByIdWithServiceControlVerification", "POST", "/sc/pet/{pet_id}/num/{number}",
           "https://localhost:-1/dynamicrouting/", "CONSTANT_ADDRESS") >>

\* the JSON names of the fields the test service declares
JsonNames == [f \in {"s_h_e_l_f", "b_o_o_k"} |-> IF f = "s_h_e_l_f" THEN "SHELF" ELSE "BOOK"]

\* the query-parameter name of a template variable: each segment of the
\* field path by its JSON name, or unchanged when the field is not declared
QueryName(variable) ==
  LET segs == Split(variable, ".")
  IN  Join([i \in DOMAIN segs |->
              IF segs[i] \in DOMAIN JsonNames THEN JsonNames[segs[i]] ELSE segs[i]], ".")

\* the path and the query of a request URI
UriPath(uri) ==
  LET q == StrIndex(uri, "?") IN IF q = 0 THEN uri ELSE SubSeq(uri, 1, q - 1)

UriQuery(uri) ==
  LET q == StrIndex(uri, "?") IN IF q = 0 THEN "" ELSE SubSeq(uri, q + 1, Len(uri))

QueryParams(query) == IF query = "" THEN <<>> ELSE Split(query, "&")

IsVariable(segment) ==
  Len(segment) >= 2 /\ SubSeq(segment, 1, 1) = "{" /\ SubSeq(segment, Len(segment), Len(segment)) = "}"

\* the request path matches the URI template segment by segment
Matches(template, path) ==
  LET t == Split(template, "/")
      p == Split(path, "/")
  IN  /\ Len(t) = Len(p)
      /\ \A i \in DOMAIN t : IF IsVariable(t[i]) THEN p[i] # "" ELSE p[i] = t[i]

\* the variables the match binds, in template order, as "name=value"
BoundVariables(template, path) ==
  LET t == Split(template, "/")
      p == Split(path, "/")
      vars_at == SelectSeq([i \in DOMAIN t |-> i], LAMBDA i : IsVariable(t[i]))
  IN  [k \in DOMAIN vars_at |->
         QueryName(SubSeq(t[vars_at[k]], 2, Len(t[vars_at[k]]) - 1)) \o "=" \o p[vars_at[k]]]

\* the path of a backend address: what follows scheme://host[:port]
AddressPath(address) ==
  LET rest == SubSeq(address, StrIndex(address, "://") + 3, Len(address))
      i    == StrIndex(rest, "/")
  IN  IF i = 0 THEN "" ELSE SubSeq(rest, i, Len(rest))

\* the prefix kept with its trailing slash
PathPrefix_Untrimmed(address) == AddressPath(address)

\* the path prefix of a backend rule: the address path less a trailing slash
PathPrefix(address) ==
  LET path == AddressPath(address)
  IN  IF HasSuffix(path, "/") THEN SubSeq(path, 1, Len(path) - 1) ELSE path

\* the query string with the bound variables put before the original parameters
QueryString_BoundFirst(original, bound) ==
  IF Len(original) + Len(bound) = 0 THEN "" ELSE "?" \o Join(bound \o original, "&")

\* the query string of the upstream request under CONSTANT_ADDRESS
QueryString(original, bound) ==
  IF Len(original) + Len(bound) = 0 THEN "" ELSE "?" \o Join(original \o bound, "&")

\* the upstream request URI of a request matched to a route
Translate(route, uri) ==
  IF route.pathTranslation = "CONSTANT_ADDRESS"
  THEN PathPrefix(route.address)
         \o QueryString(QueryParams(UriQuery(uri)), BoundVariables(route.template, UriPath(uri)))
  ELSE PathPrefix(route.address) \o UriPath(uri)
         \o (IF UriQuery(uri) = "" THEN "" ELSE "?" \o UriQuery(uri))

\* requests: the paths of the test cases with other variable values and
\* query strings of up to MaxQueryParams parameters
PathValues == {"31", "565", "cat"}

RequestPaths ==
  {"/shelves", "/searchpet", "/searchdog", "/searchroot", "/searchrootwithslash",
   "/sc/searchpet", "/searchdogs"}
    \cup {"/pet/" \o a \o "/num/" \o b : a, b \in PathValues}
    \cup {"/sc/pet/" \o a \o "/num/" \o b : a, b \in PathValues}
    \cup {"/pets/" \o a \o "/year/" \o b : a, b \in PathValues}
    \cup {"/shelves/" \o a \o "/books/info/" \o b : a, b \in PathValues}
    \cup {"/shelves/" \o a \o "/books/id/" \o b : a, b \in PathValues}

RequestParams == {"lang=US", "zone=us-west1", "key=api-key"}

RequestUris ==
  { p \o (IF Len(q) = 0 THEN "" ELSE "?" \o Join(q, "&")) :
      p \in RequestPaths, q \in SeqsUpTo(RequestParams, MaxQueryParams) }

NoRoute == 0

Received(verb, uri) ==
  [step |-> "received", verb |-> verb, uri |-> uri, route |-> NoRoute, upstream |-> "", status |-> 0]

\* the proxy looks the request up in the routes; 404 when none matches
ProxyMatch ==
  /\ proxy.step = "received"
  /\ LET hits == {r \in DOMAIN Routes :
                    Routes[r].verb = proxy.verb /\ Matches(Routes[r].template, UriPath(proxy.uri))}
     IN  IF hits = {}
         THEN proxy' = [proxy EXCEPT !.step = "responded", !.status = 404]
         ELSE proxy' = [proxy EXCEPT !.step = "matched",
                                     !.route = CHOOSE r \in hits : \A x \in hits : r <= x]
  /\ UNCHANGED <<m, management, jwks, pc, token, serviceConfig, loop, snapshot, cache, ret, calls, runs, seen>>

\* the proxy rewrites the request and sends it upstream
ProxyTranslate ==
  /\ proxy.step = "matched"
  /\ proxy' = [proxy EXCEPT !.step = "forwarded",
                            !.upstream = Translate(Routes[proxy.route], proxy.uri)]
  /\ UNCHANGED <<m, management, jwks, pc, token, serviceConfig, loop, snapshot, cache, ret, calls, runs, seen>>

NextProxy ==
  \/ ProxyMatch
  \/ ProxyTranslate

InitProxy ==
  /\ m = [serviceName |-> "test-echo", configID |-> "test-config-id"]
  /\ management = Answer(NoService)
  /\ jwks = GoodJwks
  /\ pc = "ready" /\ token = "" /\ serviceConfig = Nil /\ loop = NoLoop
  /\ snapshot = Nil /\ cache = [n \in NodeIds |-> Nil] /\ ret = NoReturn
  /\ calls = <<>> /\ runs = <<>> /\ seen = <<>>
  /\ \E verb \in {"GET", "POST"}, uri \in RequestUris : proxy = Received(verb, uri)

SpecProxy == InitProxy /\ [][NextProxy]_vars

\* the request has been sent upstream under the given path translation
Forwarded(pathTranslation) ==
  /\ proxy.step = "forwarded"
  /\ Routes[proxy.route].pathTranslation = pathTranslation

\* the test cases of TestDynamicRouting and of
\* TestServiceControlRequestForDynamicRouting, with the variable values and
\* the query parameters of the requests above: verb, request, RequestURI wanted
TestCases ==
  { <<"GET", "/pet/31/num/565", "/dynamicrouting/getpetbyid?pet_id=31&number=565">>,
    <<"GET", "/pet/31/num/565?lang=US&zone=us-west1",
      "/dynamicrouting/getpetbyid?lang=US&zone=us-west1&pet_id=31&number=565">>,
    <<"GET", "/shelves/31/books/info/565", "/dynamicrouting/bookinfo?SHELF=31&BOOK=565">>,
    <<"GET", "/shelves/31/books/id/565", "/dynamicrouting/bookid?SHELF.i_d=31&BOOK.id=565">>,
    <<"GET", "/shelves", "/dynamicrouting/shelves">>,
    <<"GET", "/shelves?lang=US", "/dynamicrouting/shelves?lang=US">>,
    <<"GET", "/searchpet", "/dynamicrouting/searchpet/searchpet">>,
    <<"GET", "/searchpet?zone=us-west1&lang=US", "/dynamicrouting/searchpet/searchpet?zone=us-west1&lang=US">>,
    <<"GET", "/searchdog", "/dynamicrouting/searchdogs/searchdog">>,
    <<"GET", "/searchdog?lang=US", "/dynamicrouting/searchdogs/searchdog?lang=US">>,
    <<"GET", "/pets/cat/year/31", "/dynamicrouting/listpet/pets/cat/year/31">>,
    <<"GET", "/pets/cat/year/31?lang=US&zone=us-west1",
      "/dynamicrouting/listpet/pets/cat/year/31?lang=US&zone=us-west1">>,
    <<"GET", "/searchrootwithslash", "/searchrootwithslash">>,
    <<"GET", "/searchroot?zone=us-west1&lang=US", "/searchroot?zone=us-west1&lang=US">>,
    <<"POST", "/sc/searchpet?key=api-key&zone=us-west1",
      "/dynamicrouting/sc/searchpet?key=api-key&zone=us-west1">>,
    <<"POST", "/sc/pet/31/num/565?key=api-key&lang=US",
      "/dynamicrouting?key=api-key&lang=US&pet_id=31&number=565">> }

\* the proxy answers the requests of the test cases as the tests want
AsTested ==
  /\ proxy.step = "forwarded" =>
       \A tc \in TestCases :
         (tc[1] = proxy.verb /\ tc[2] = proxy.uri) => proxy.upstream = tc[3]
  /\ (proxy.verb = "GET" /\ proxy.uri = "/searchdogs" /\ proxy.step # "received") =>
       (proxy.step = "responded" /\ proxy.status = 404)

(***************************************************************************)
(* C15 as stated: a request matched to a method bound with                 *)
(* CONSTANT_ADDRESS goes upstream with the path of the backend address in  *)
(* the place of the request path, and with a query string made of the      *)
(* original query parameters in their order followed by the bound template *)
(* variables in template order; no query string when there are neither.    *)
(***************************************************************************)
C15_ConstantAddress ==
  Forwarded("CONSTANT_ADDRESS") =>
    LET route == Routes[proxy.route]
    IN  /\ UriPath(proxy.upstream) = AddressPath(route.address)
        /\ QueryParams(UriQuery(proxy.upstream)) =
             QueryParams(UriQuery(proxy.uri)) \o BoundVariables(route.template, UriPath(proxy.uri))
        /\ (StrIndex(proxy.upstream, "?") = 0) <=>
             (UriQuery(proxy.uri) = "" /\ BoundVariables(route.template, UriPath(proxy.uri)) = <<>>)

(***************************************************************************)
(* C15 amended: the same, with the path of the backend address taken       *)
(* without its trailing slash when it has one.                             *)
(***************************************************************************)
C15_ConstantAddressTrimmed ==
  Forwarded("CONSTANT_ADDRESS") =>
    LET route == Routes[proxy.route]
        path  == AddressPath(route.address)
    IN  /\ IF HasSuffix(path, "/")
           THEN UriPath(proxy.upstream) \o "/" = path
           ELSE UriPath(proxy.upstream) = path
        /\ QueryParams(UriQuery(proxy.upstream)) =
             QueryParams(UriQuery(proxy.uri)) \o BoundVariables(route.template, UriPath(proxy.uri))
        /\ (StrIndex(proxy.upstream, "?") = 0) <=>
             (UriQuery(proxy.uri) = "" /\ BoundVariables(route.template, UriPath(proxy.uri)) = <<>>)
        /\ AsTested

\* a request with two query parameters and two path variables has gone
\* upstream under CONSTANT_ADDRESS
C15_Witness ==
  /\ Forwarded("CONSTANT_ADDRESS")
  /\ proxy.uri = "/pet/31/num/565?lang=US&zone=us-west1"
  /\ proxy.upstream = "/dynamicrouting/getpetbyid?lang=US&zone=us-west1&pet_id=31&number=565"

(***************************************************************************)
(* C16: a request matched to a method bound with APPEND_PATH_TO_ADDRESS    *)
(* goes upstream with the original request path appended to the path of    *)
(* the backend address and with the original query string unchanged; when  *)
(* the backend address ends with "/", the root address included, one slash *)
(* separates the two parts, never two.                                     *)
(***************************************************************************)
C16_AppendPathToAddress ==
  Forwarded("APPEND_PATH_TO_ADDRESS") =>
    LET route == Routes[proxy.route]
        base  == AddressPath(route.address)
        path  == UriPath(proxy.uri)
    IN  /\ UriPath(proxy.upstream) =
             (IF HasSuffix(route.address, "/")
              THEN base \o SubSeq(path, 2, Len(path)) ELSE base \o path)
        /\ UriQuery(proxy.upstream) = UriQuery(proxy.uri)
        /\ (StrIndex(proxy.upstream, "?") = 0) <=> (StrIndex(proxy.uri, "?") = 0)
        /\ StrIndex(proxy.upstream, "//") = 0

\* a request with a query string has gone upstream to a backend address
\* that ends with a slash
C16_Witness ==
  /\ Forwarded("APPEND_PATH_TO_ADDRESS")
  /\ HasSuffix(Routes[proxy.route].address, "/")
  /\ AddressPath(Routes[proxy.route].address) # "/"
  /\ proxy.uri = "/searchdog?lang=US"
  /\ proxy.upstream = "/dynamicrouting/searchdogs/searchdog?lang=US"

\* the JwtRequirement j is the one of the requirement r of the document:
\* a provider name, or a provider with the audiences r lists between commas
IsRequirementOf(j, r) ==
  /\ j.providerName = r.providerId
  /\ j.requirements = <<>>
  /\ IF r.audiences = ""
     THEN j.kind = "provider_name" /\ j.audiences = <<>>
     ELSE /\ j.kind = "provider_and_audiences"
          /\ Join(j.audiences, ",") = r.audiences
          /\ \A a \in DOMAIN j.audiences : StrIndex(j.audiences[a], ",") = 0

(***************************************************************************)
(* C17: for each authentication rule that yields a requirement rule: with  *)
(* exactly one requirement, Requires is that requirement itself (a         *)
(* provider name when it has no audiences, the provider with the           *)
(* comma-split audience list otherwise); with n > 1 requirements, Requires *)
(* is a RequiresAny list of exactly those n requirements in input order.   *)
(***************************************************************************)
C17_RequiresShape ==
  JwtEmitted =>
    LET emitted == JwtRulesOf(snapshot[1])
        rules   == serviceConfig[1].authRules
    IN  /\ Len(emitted) <= Len(rules)
        /\ \A k \in DOMAIN emitted :
             LET reqs == rules[k].requirements
                 j    == emitted[k].requires
             IN  IF Len(reqs) = 1
                 THEN IsRequirementOf(j, reqs[1])
                 ELSE /\ Len(reqs) > 1
                      /\ j.kind = "requires_any"
                      /\ Len(j.requirements) = Len(reqs)
                      /\ \A i \in DOMAIN reqs : IsRequirementOf(j.requirements[i], reqs[i])

\* the filter has two requirement rules: the first of one requirement with
\* two audiences, the second of two requirements
C17_Witness ==
  /\ JwtEmitted
  /\ Len(JwtRulesOf(snapshot[1])) = 2
  /\ Len(serviceConfig[1].authRules[1].requirements) = 1
  /\ JwtRulesOf(snapshot[1])[1].requires.kind = "provider_and_audiences"
  /\ JwtRulesOf(snapshot[1])[1].requires.audiences = <<"aud1", "aud2">>
  /\ Len(serviceConfig[1].authRules[2].requirements) = 2
  /\ JwtRulesOf(snapshot[1])[2].requires.kind = "requires_any"
  /\ Len(JwtRulesOf(snapshot[1])[2].requires.requirements) = 2

\* makeListener has been run to its end, normally or not
ListenerDone ==
  /\ serviceConfig # Nil
  /\ pc \in {"SetSnapshot", "return", "ready", "panicked"}

(***************************************************************************)
(* C18: makeServiceControlFilter emits a service-control filter exactly    *)
(* when the document's name and its control environment are both           *)
(* non-empty: once makeListener has run, the listener carries the filter   *)
(* if and only if both are non-empty; when either is empty the listener is *)
(* still built and the snapshot is published without the filter.           *)
(***************************************************************************)
C18_ServiceControlIffNamed ==
  ListenerDone =>
    LET sc    == serviceConfig[1]
        named == sc.name # "" /\ sc.environment # ""
    IN  /\ (Built /\ HasFilter(snapshot[1], ServiceControl)) <=> named
        /\ ~named =>
             /\ Built
             /\ ~HasFilter(snapshot[1], ServiceControl)
             /\ pc = "ready" => (cache[node] = snapshot /\ ret.manager)

(***************************************************************************)
(* Documents that differ in the source file names of their APIs and in     *)
(* their source files.                                                     *)
(***************************************************************************)
MaxSourceFiles == 2

ListenerApis ==
  { Api("lib", <<"Get">>, "lib.proto"),
    Api("lib.v1", <<"Get">>, "v1/lib.proto"),
    Api("lib", <<"Get">>, "api/lib.yaml"),
    Api("lib", <<"Get">>, "lib.proto.txt"),
    Api("lib.v1", <<"Get">>, "lib.PROTO"),
    Api("lib", <<"Get">>, "") }

\* source files: two descriptor sets, an OpenAPI file, and an Any that is
\* not a ConfigFile, which UnmarshalAny leaves as the zero ConfigFile
ListenerSourceFiles ==
  { ConfigFile("FILE_DESCRIPTOR_SET_PROTO", "descriptor-1"),
    ConfigFile("FILE_DESCRIPTOR_SET_PROTO", "descriptor-2"),
    ConfigFile("OPEN_API_YAML", "swagger"),
    ConfigFile("FILE_TYPE_UNSPECIFIED", "") }

ListenerServices ==
  { Service(ServiceName, Environment, a, <<>>, <<>>, p, <<>>, f) :
      a \in SeqsUpTo(ListenerApis, MaxApis),
      p \in {<<>>, <<AuthProvider("issuer", "issuer.example", "https://issuer.example/jwks", "")>>},
      f \in SeqsUpTo(ListenerSourceFiles, MaxSourceFiles) }

ListenerWorlds ==
  (FailedAnswers \cup {Answer(s) : s \in ListenerServices}) \X {GoodJwks}

InitListener ==
  /\ InitManager
  /\ m = [serviceName |-> "echo.cloud.goog", configID |-> "2019-01-17r0"]
  /\ \E w \in ListenerWorlds : management = w[1] /\ jwks = w[2]

SpecListener == InitListener /\ [][Next]_vars

\* the positions of the descriptor sets among the source files
DescriptorSets(doc) ==
  {k \in DOMAIN doc.sourceFiles : doc.sourceFiles[k].fileType = "FILE_DESCRIPTOR_SET_PROTO"}

\* the transcoder filters of a snapshot
TranscodersOf(snap) ==
  LET fs == HttpManagerOf(snap).httpFilters
  IN  {fs[i] : i \in {i \in DOMAIN fs : fs[i].name = GRPCJSONTranscoder}}

\* makeSnapshot has reached makeListener's switch on the file name
Classified ==
  /\ serviceConfig # Nil
  /\ Len(serviceConfig[1].apis) >= 1
  /\ pc \notin {"makeSnapshot", "callServiceManagement", "fetchAccessToken", "NewConfigManager"}

(***************************************************************************)
(* C19: the backend protocol is decided by the source file name of the     *)
(* first API alone: a name ending in ".proto" gives GRPC, a name ending in *)
(* ".yaml" gives HTTP, any other name makes makeListener fail.  The        *)
(* transcoder filter appears only for GRPC, and never for an HTTP backend, *)
(* also when the document carries a file descriptor set.                   *)
(***************************************************************************)
C19_ProtocolFromFirstFileName ==
  Classified =>
    LET doc  == serviceConfig[1]
        file == doc.apis[1].fileName
        grpc == HasSuffix(file, ".proto")
        http == ~grpc /\ HasSuffix(file, ".yaml")
    IN  /\ (~grpc /\ ~http) =>
             /\ pc = "failed" /\ ~Built
             /\ ret.err = "fail to make a snapshot, unknown backend protocol"
             /\ ~Called("fetchJwk")
        /\ (grpc \/ http) => pc # "failed"
        /\ Built =>
             /\ TranscodersOf(snapshot[1]) # {} => grpc
             /\ http => TranscodersOf(snapshot[1]) = {}
             /\ (grpc /\ DescriptorSets(doc) # {}) => TranscodersOf(snapshot[1]) # {}

\* the first API is an HTTP backend, the second one a gRPC one, the document
\* carries a descriptor set, and the snapshot has no transcoder
C19_Witness ==
  /\ Built /\ pc = "ready"
  /\ Len(serviceConfig[1].apis) = 2
  /\ serviceConfig[1].apis[1].fileName = "api/lib.yaml"
  /\ serviceConfig[1].apis[2].fileName = "lib.proto"
  /\ DescriptorSets(serviceConfig[1]) # {}
  /\ TranscodersOf(snapshot[1]) = {}

(***************************************************************************)
(* C20: for a gRPC backend the transcoder filter embeds the contents of    *)
(* the first source file, in list order, whose type is                     *)
(* FILE_DESCRIPTOR_SET_PROTO, with the first API's name as its only        *)
(* service; the entries after it are ignored; when no entry has that type  *)
(* the filter is omitted and startup still succeeds.                       *)
(***************************************************************************)
C20_FirstDescriptorSet ==
  (Classified /\ HasSuffix(serviceConfig[1].apis[1].fileName, ".proto")) =>
    LET doc == serviceConfig[1]
        ds  == DescriptorSets(doc)
    IN  /\ pc \notin {"failed", "panicked"}
        /\ pc = "ready" => (ret.manager /\ cache[node] = snapshot /\ Built)
        /\ Built =>
             IF ds = {} THEN TranscodersOf(snapshot[1]) = {}
             ELSE LET first == CHOOSE k \in ds : \A x \in ds : k <= x
                  IN  TranscodersOf(snapshot[1]) =
                        { [ name   |-> GRPCJSONTranscoder,
                            config |-> [ protoDescriptorBin |-> doc.sourceFiles[first].fileContents,
                                         services           |-> <<doc.apis[1].name>> ] ] }

\* two descriptor sets with different contents, two APIs with different
\* names: the filter has the first set and the first API
C20_Witness ==
  /\ Built /\ pc = "ready"
  /\ Len(serviceConfig[1].apis) = 2
  /\ serviceConfig[1].apis[1].name = "lib.v1" /\ serviceConfig[1].apis[2].name = "lib"
  /\ serviceConfig[1].sourceFiles =
       << ConfigFile("FILE_DESCRIPTOR_SET_PROTO", "descriptor-2"),
          ConfigFile("FILE_DESCRIPTOR_SET_PROTO", "descriptor-1") >>
  /\ \E f \in TranscodersOf(cache[node][1]) :
       f.config.protoDescriptorBin = "descriptor-2" /\ f.config.services = <<"lib.v1">>

(***************************************************************************)
(* Selectors of http.rules and usage.rules that name no method.            *)
(***************************************************************************)
\* the selectors "<api_name>.<method_name>" of the methods of a document
SeededSelectors(doc) == {DottedName(doc, ij) : ij \in MethodsOf(doc)}

\* the selectors the loops over http.rules and usage.rules look up and
\* write through: those of the entries with a GET, PUT, POST, DELETE or
\* PATCH pattern, and those of all usage entries
DereferencedSelectors(doc) ==
  {doc.http[i].selector :
     i \in {i \in DOMAIN doc.http :
              doc.http[i].kind \in {"get", "put", "post", "delete", "patch"}}}
    \cup {doc.usage[i].selector : i \in DOMAIN doc.usage}

\* makeListener has run makeServiceControlFilter past its guard
ScBuilt ==
  /\ ListenerDone
  /\ serviceConfig[1].name # "" /\ serviceConfig[1].environment # ""

(***************************************************************************)
(* C21: when the service-control filter is being built and an entry of     *)
(* http.rules with a GET, PUT, POST, DELETE or PATCH pattern, or an entry  *)
(* of usage.rules, has a selector that is no "<api_name>.<method_name>" of *)
(* the document, the build does not complete: the missing map entry is     *)
(* dereferenced, no snapshot is built and none is published.  The build    *)
(* completes exactly when every such selector names a seeded rule, and the *)
(* emitted rules are then those of the seeded selectors only.              *)
(***************************************************************************)
C21_UnknownSelectorEndsTheBuild ==
  /\ ScBuilt =>
       LET doc     == serviceConfig[1]
           unknown == DereferencedSelectors(doc) \ SeededSelectors(doc)
       IN  IF unknown # {}
           THEN /\ pc = "panicked" /\ ret.panicked
                /\ ~ret.manager /\ ~Built
                /\ ~Called("SetSnapshot")
                /\ \A n \in NodeIds : cache[n] = Nil
           ELSE /\ pc # "panicked" /\ ~ret.panicked
                /\ ScEmitted
                /\ {ScRules(snapshot[1])[k].operationName : k \in DOMAIN ScRules(snapshot[1])}
                     = SeededSelectors(doc)
  /\ pc = "panicked" =>
       /\ ScBuilt
       /\ DereferencedSelectors(serviceConfig[1]) \ SeededSelectors(serviceConfig[1]) # {}

\* a PUT entry of http.rules names a selector no method gives, the usage
\* entry names a seeded one: the build has ended in the dereference
C21_Witness ==
  /\ pc = "panicked"
  /\ serviceConfig[1].http = <<HttpRule("lib.Missing", "put", "/v1/missing")>>
  /\ serviceConfig[1].usage = <<UsageRule("lib.Get", TRUE)>>
  /\ "lib.Get" \in SeededSelectors(serviceConfig[1])
  /\ snapshot = Nil /\ cache[node] = Nil

(***************************************************************************)
(* The external calls of startup: documents with and without APIs, with a  *)
(* known and an unknown backend protocol, with several providers, and JWKS *)
(* endpoints that answer, refuse or are unreachable.                       *)
(***************************************************************************)
CallsApiLists ==
  { <<>>,
    <<Api("lib", <<"Get">>, "lib.proto")>>,
    <<Api("lib", <<"Get">>, "lib.proto.txt")>>,
    <<Api("lib", <<"Get">>, "api/lib.yaml"), Api("lib.v1", <<"Get">>, "lib.proto.txt")>> }

CallsServices ==
  { Service(ServiceName, Environment, a, <<>>, <<>>, p, <<>>, <<>>) :
      a \in CallsApiLists, p \in SeqsUpTo(ProviderValues, MaxProviders) }

CallsWorlds ==
  (FailedAnswers \cup {Answer(s) : s \in CallsServices})
    \X [JwksUris -> { [status |-> 200, body |-> "{keys-1}"],
                      [status |-> 404, body |-> ""], [status |-> 0, body |-> ""] }]

InitCalls ==
  /\ InitManager
  /\ m = [serviceName |-> "echo.cloud.goog", configID |-> "2019-01-17r0"]
  /\ \E w \in CallsWorlds : management = w[1] /\ jwks = w[2]

SpecCalls == InitCalls /\ [][Next]_vars

\* the calls that leave the process, in call order
ExternalCalls ==
  SelectSeq(calls, LAMBDA c : c.op \in {"fetchAccessToken", "callServiceManagement", "fetchJwk"})

\* the JWKS GETs startup makes on a document: none without an API or with
\* an unknown protocol, else one per provider in document order up to and
\* including the first one that is not answered with 200 OK
ExpectedJwksGets(doc) ==
  IF Len(doc.apis) = 0 THEN <<>>
  ELSE IF ~HasSuffix(doc.apis[1].fileName, ".proto") /\ ~HasSuffix(doc.apis[1].fileName, ".yaml")
  THEN <<>>
  ELSE LET failed == {i \in DOMAIN doc.providers : jwks[doc.providers[i].jwksUri].status # 200}
           last   == IF failed = {} THEN Len(doc.providers)
                     ELSE CHOOSE i \in failed : \A j \in failed : i <= j
       IN  [i \in 1..last |-> doc.providers[i].jwksUri]

\* startup has made all the external calls it makes
CallsDone == pc \in {"makeListener", "SetSnapshot", "return", "ready", "failed", "panicked"}

(***************************************************************************)
(* C22: the external calls of startup come in a fixed order and number:    *)
(* one access-token request; then one service-management GET, not issued   *)
(* when the token request failed; then, only when the document has an API  *)
(* and its protocol was classified, at most one JWKS GET per provider in   *)
(* document order, none after the first failed one.  No JWKS GET is issued *)
(* when the config fetch failed, the API list is empty or the protocol is  *)
(* unknown.                                                                *)
(***************************************************************************)
C22_ExternalCallSequence ==
  LET ext == ExternalCalls
      ops == [i \in DOMAIN ext |-> ext[i].op]
      gets == IF serviceConfig = Nil THEN <<>> ELSE ExpectedJwksGets(serviceConfig[1])
  IN  /\ Len(ext) >= 1 => ops[1] = "fetchAccessToken"
      /\ Len(ext) >= 2 => (ops[2] = "callServiceManagement" /\ token # "")
      /\ \A i \in DOMAIN ext : i >= 3 => ops[i] = "fetchJwk"
      /\ Len(FetchedUris) <= Len(gets)
      /\ FetchedUris = SubSeq(gets, 1, Len(FetchedUris))
      /\ \A i \in DOMAIN calls : calls[i].op = "SetSnapshot" => i = Len(calls) /\ i > Len(ext)
      /\ CallsDone =>
           /\ CountCalls("fetchAccessToken") = 1
           /\ CountCalls("callServiceManagement") = (IF token = "" THEN 0 ELSE 1)
           /\ FetchedUris = gets
           /\ ext[1].arg = tokenUri
           /\ token # "" => ext[2].arg = fetchConfigURL(m.serviceName, m.configID)

\* two providers: the first JWKS endpoint answered, the second refused;
\* startup made four external calls in order and succeeded
C22_Witness ==
  /\ pc = "ready"
  /\ Len(serviceConfig[1].providers) = 2
  /\ jwks["https://issuer.example/jwks"].status = 200
  /\ jwks["https://accounts.example/certs"].status = 404
  /\ [i \in DOMAIN ExternalCalls |-> ExternalCalls[i].arg] =
       << tokenUri, fetchConfigURL(m.serviceName, m.configID),
          "https://issuer.example/jwks", "https://accounts.example/certs" >>

====
